---------------------------- MODULE Spec2Model ----------------------------
(***************************************************************************)
(* A model of the ClickHouse table profiler of target-jq-clickhouse        *)
(* (src/core/utils/profile_table.py): the type-string parser               *)
(* parse_ch_types, the column classifier determine_column_type and the     *)
(* profiling run profile_ch_table; and of the record flattening and value  *)
(* coercion of src/target_clickhouse/utils/ch_df_utils.py.                 *)
(*                                                                         *)
(* Python strings are sequences of one-character strings, so that index,   *)
(* endswith, slicing, strip, lower and the substring test `in` are         *)
(* computed character by character, as the code computes them.  Python's   *)
(* None is the record None; a raised exception is a record [raised |-> T]  *)
(* naming the exception type T.                                            *)
(***************************************************************************)
EXTENDS Integers, Sequences, FiniteSets, TLC

VARIABLES
    \* the parser and the classifier on their own
    given,          \* how the parser's input was built: wrappers, core type tree, letter case, edit
    type_string,    \* the argument of parse_ch_types / determine_column_type
    column_name,    \* the column name given to determine_column_type
    parsed,         \* what parse_ch_types returned (NotRun before the call)
    classified,     \* what determine_column_type returned or raised (NotRun before the call)
    \* a profiling run, profile_ch_table
    config,         \* the argument config: None or a dict parent name -> {'type_column': ...}
    lc_probe,       \* the argument lc_probe
    pc,             \* where the run is: show_tables, describe, count, resolve, batch,
                    \* lc_probe, returned, raised (idle: no run)
    schema,         \* the rows of schema_df the loop has taken so far, (name, type) each
    rows,           \* profiled_table.rows
    columns,        \* profiled_table.columns, in insertion order: (key, value) each
    batch_start,    \* the loop variable i of the batch loop
    queries,        \* the queries sent to ch_client so far, in order
    raised,         \* the exception that left profile_ch_table, or None
    \* one call of a function on its own: of ch_df_utils, resolve_datatype, or the sink
    call,           \* the function called and its arguments (None: no call)
    call_result     \* what the call returned or raised (NotRun before the call)

parse_vars == <<given, type_string, column_name, parsed, classified>>

profile_vars == <<config, lc_probe, pc, schema, rows, columns, batch_start, queries, raised>>

frame_vars == <<call, call_result>>

vars == <<given, type_string, column_name, parsed, classified,
          config, lc_probe, pc, schema, rows, columns, batch_start, queries, raised,
          call, call_result>>

-----------------------------------------------------------------------------
(* Python values *)

None == [none |-> TRUE]

NotRun == [not_run |-> TRUE]

Some(v) == [some |-> v]

Raised(exception) == [raised |-> exception]

IsRaised(v) == "raised" \in DOMAIN v

-----------------------------------------------------------------------------
(* Strings as character sequences *)

UpperChars == <<"A","B","C","D","E","F","G","H","I","J","K","L","M","N","O","P","Q","R","S","T","U","V","W","X","Y","Z">>

LowerChars == <<"a","b","c","d","e","f","g","h","i","j","k","l","m","n","o","p","q","r","s","t","u","v","w","x","y","z">>

Whitespace == {" ", "\t", "\n", "\r"}

LowerTable == [c \in {UpperChars[i] : i \in DOMAIN UpperChars} |->
                  LowerChars[CHOOSE i \in DOMAIN UpperChars : UpperChars[i] = c]]

UpperTable == [c \in {LowerChars[i] : i \in DOMAIN LowerChars} |->
                  UpperChars[CHOOSE i \in DOMAIN LowerChars : LowerChars[i] = c]]

LowerChar(c) == IF c \in DOMAIN LowerTable THEN LowerTable[c] ELSE c

UpperChar(c) == IF c \in DOMAIN UpperTable THEN UpperTable[c] ELSE c

\* str.lower()
Lower(s) == [i \in 1..Len(s) |-> LowerChar(s[i])]

Upper(s) == [i \in 1..Len(s) |-> UpperChar(s[i])]

\* str.strip()
Strip(s) ==
    IF \A i \in 1..Len(s) : s[i] \in Whitespace
    THEN <<>>
    ELSE LET first == CHOOSE i \in 1..Len(s) :
                          s[i] \notin Whitespace /\ \A j \in 1..(i-1) : s[j] \in Whitespace
             last  == CHOOSE i \in 1..Len(s) :
                          s[i] \notin Whitespace /\ \A j \in (i+1)..Len(s) : s[j] \in Whitespace
         IN  SubSeq(s, first, last)

\* str.index(c), 1-based; 0 stands for the ValueError of a character that is absent
Index(s, c) ==
    IF \E i \in 1..Len(s) : s[i] = c
    THEN CHOOSE i \in 1..Len(s) : s[i] = c /\ \A j \in 1..(i-1) : s[j] # c
    ELSE 0

\* str.endswith(c)
EndsWith(s, c) == Len(s) > 0 /\ s[Len(s)] = c

\* sub in s
Contains(s, sub) ==
    \E i \in 0..(Len(s) - Len(sub)) : SubSeq(s, i + 1, i + Len(sub)) = sub

-----------------------------------------------------------------------------
(* parse_ch_types *)

CLICKHOUSE_ANNOTATIONS ==
    { <<"l","o","w","c","a","r","d","i","n","a","l","i","t","y">>,
      <<"n","u","l","l","a","b","l","e">> }

\* the literal 'Map' that the core type is compared with
MapLiteral == <<"M","a","p">>

\* the mutant of PeelAnnotations that records each peeled wrapper in front of
\* the ones peeled before it
RECURSIVE PeelAnnotations_prepend(_, _)
PeelAnnotations_prepend(s, annotations) ==
    LET first_paren_index == Index(s, "(")
        stop == [type_string |-> s, annotations |-> annotations]
    IN  IF first_paren_index = 0 THEN stop
        ELSE IF ~EndsWith(s, ")") THEN stop
        ELSE LET outer_name == SubSeq(s, 1, first_paren_index - 1)
             IN  IF outer_name \in CLICKHOUSE_ANNOTATIONS
                 THEN PeelAnnotations_prepend(
                          Strip(SubSeq(s, first_paren_index + 1, Len(s) - 1)),
                          <<outer_name>> \o annotations)
                 ELSE stop

\* 1. Peel away annotations: the state of the while loop when it breaks
RECURSIVE PeelAnnotations(_, _)
PeelAnnotations(s, annotations) ==
    LET first_paren_index == Index(s, "(")
        stop == [type_string |-> s, annotations |-> annotations]
    IN  IF first_paren_index = 0 THEN stop
        ELSE IF ~EndsWith(s, ")") THEN stop
        ELSE LET outer_name == SubSeq(s, 1, first_paren_index - 1)
             IN  IF outer_name \in CLICKHOUSE_ANNOTATIONS
                 THEN PeelAnnotations(Strip(SubSeq(s, first_paren_index + 1, Len(s) - 1)),
                                      Append(annotations, outer_name))
                 ELSE stop

\* 3. Format the output based on the root type
FormatNode(core_type, annotations, args) ==
    IF core_type = MapLiteral
    THEN IF Len(args) # 2
         THEN None
         ELSE [data_type |-> core_type, annotations |-> annotations,
               key |-> args[1], value |-> args[2]]
    ELSE [data_type |-> core_type, annotations |-> annotations, args |-> args]

\* the number of characters c among the first k characters of s
Count(s, c, k) == Cardinality({ i \in 1..k : s[i] = c })

\* the value of the loop's counter `level` when the loop is at character i
LevelAt(content, i) == Count(content, "(", i - 1) - Count(content, ")", i - 1)

\* the mutant of SplitPoints that cuts at every comma
SplitPoints_every_comma(content) ==
    { i \in 1..Len(content) : content[i] = "," }

\* the positions at which the loop cuts an argument: a comma met at level 0
SplitPoints(content) ==
    { i \in 1..Len(content) : content[i] = "," /\ LevelAt(content, i) = 0 }

\* the n-th smallest element of a set of positions
NthPoint(points, n) ==
    CHOOSE q \in points : Cardinality({ r \in points : r < q }) = n - 1

\* the slices content[start_index:i] the loop hands to the recursive parse, in
\* order, and content[start_index:] after the loop as the last of them
ArgStrings(content) ==
    LET points == SplitPoints(content)
        m == Cardinality(points)
    IN  [ j \in 1..(m + 1) |->
            SubSeq(content,
                   IF j = 1 THEN 1 ELSE NthPoint(points, j - 1) + 1,
                   IF j = m + 1 THEN Len(content) ELSE NthPoint(points, j) - 1) ]

RECURSIVE parse_ch_types(_)

\* the for loop over the characters of content and the parse of the last
\* argument after it: the args built, or failed when some argument did not
\* parse and the function returned None at it
SplitArgs(content) ==
    LET strings == ArgStrings(content)
        args == [ j \in 1..Len(strings) |-> parse_ch_types(strings[j]) ]
    IN  IF \E j \in 1..Len(strings) : args[j] = None
        THEN [failed |-> TRUE, args |-> <<>>]
        ELSE [failed |-> FALSE, args |-> args]

parse_ch_types(raw) ==
    LET peeled == PeelAnnotations(Lower(Strip(raw)), <<>>)
        s == peeled.type_string
        annotations == peeled.annotations
        first_paren_index == Index(s, "(")
    IN  IF first_paren_index = 0
        THEN [data_type |-> s, annotations |-> annotations, args |-> <<>>]
        ELSE IF ~EndsWith(s, ")") THEN None
        ELSE LET core_type == SubSeq(s, 1, first_paren_index - 1)
                 content == SubSeq(s, first_paren_index + 1, Len(s) - 1)
                 split == IF Strip(content) # <<>>
                          THEN SplitArgs(content)
                          ELSE [failed |-> FALSE, args |-> <<>>]
             IN  IF split.failed THEN None
                 ELSE FormatNode(core_type, annotations, split.args)

-----------------------------------------------------------------------------
(* ColumnType, ValueType, resolve_datatype, determine_column_type *)

ColumnType_BASIC == [ColumnType |-> "Basic"]

ColumnType_ARRAY == [ColumnType |-> "Array"]

ColumnType_MAP == [ColumnType |-> "Map"]

ColumnType_GROUPED == [ColumnType |-> "Grouped"]

ColumnType_NESTED == [ColumnType |-> "Nested"]

ValueType_STRING == [ValueType |-> "String"]

ValueType_NUMBER == [ValueType |-> "Number"]

ValueType_DATE == [ValueType |-> "Date"]

ValueType_UUID == [ValueType |-> "UUID"]

ValueType_BOOLEAN == [ValueType |-> "Boolean"]

ValueType_OTHER == [ValueType |-> "Other"]

StringWords ==
    { <<"s","t","r","i","n","g">>, <<"f","i","x","e","d","s","t","r","i","n","g">>,
      <<"e","n","u","m">> }

NumberWords ==
    { <<"i","n","t">>, <<"f","l","o","a","t">>, <<"d","e","c","i","m","a","l">>,
      <<"d","o","u","b","l","e">>, <<"u","i","n","t">> }

DateWords == { <<"d","a","t","e">>, <<"d","a","t","e","t","i","m","e">> }

UuidWord == <<"u","u","i","d">>

BoolWord == <<"b","o","o","l">>

\* the mutant of resolve_datatype that tests for a date before a number
resolve_datatype_date_first(raw_data_type) ==
    LET data_type == Lower(raw_data_type)
    IN  IF \E w \in StringWords : Contains(data_type, w) THEN ValueType_STRING
        ELSE IF \E w \in DateWords : Contains(data_type, w) THEN ValueType_DATE
        ELSE IF \E w \in NumberWords : Contains(data_type, w) THEN ValueType_NUMBER
        ELSE IF Contains(data_type, UuidWord) THEN ValueType_UUID
        ELSE IF Contains(data_type, BoolWord) THEN ValueType_BOOLEAN
        ELSE ValueType_OTHER

resolve_datatype(raw_data_type) ==
    LET data_type == Lower(raw_data_type)
    IN  IF \E w \in StringWords : Contains(data_type, w) THEN ValueType_STRING
        ELSE IF \E w \in NumberWords : Contains(data_type, w) THEN ValueType_NUMBER
        ELSE IF \E w \in DateWords : Contains(data_type, w) THEN ValueType_DATE
        ELSE IF Contains(data_type, UuidWord) THEN ValueType_UUID
        ELSE IF Contains(data_type, BoolWord) THEN ValueType_BOOLEAN
        ELSE ValueType_OTHER

ArrayWord == <<"a","r","r","a","y">>

MapWord == <<"m","a","p">>

\* structure.get('args') is truthy: the key is there and the list is not empty
HasArgs(structure) == "args" \in DOMAIN structure /\ structure.args # <<>>

\* the mutant of determine_column_type that tests the dot in the name first
determine_column_type_dot_first(name, column_type_str) ==
    LET structure == parse_ch_types(Lower(column_type_str))
    IN  IF structure = None
        THEN Raised("AttributeError")
        ELSE IF Contains(name, <<".">>)
        THEN [column_type |-> ColumnType_GROUPED,
              value_data_type |-> resolve_datatype(structure.data_type),
              key_data_type |-> None]
        ELSE IF structure.data_type = ArrayWord
        THEN IF HasArgs(structure)
             THEN [column_type |-> ColumnType_ARRAY,
                   value_data_type |-> resolve_datatype(structure.args[1].data_type),
                   key_data_type |-> None]
             ELSE Raised("ValueError")
        ELSE IF structure.data_type = MapWord
        THEN IF HasArgs(structure) /\ Len(structure.args) = 2
             THEN [column_type |-> ColumnType_MAP,
                   value_data_type |-> resolve_datatype(structure.args[2].data_type),
                   key_data_type |-> resolve_datatype(structure.args[1].data_type)]
             ELSE Raised("ValueError")
        ELSE [column_type |-> ColumnType_BASIC,
              value_data_type |-> resolve_datatype(structure.data_type),
              key_data_type |-> None]

\* the mutant of determine_column_type that classifies a container of the
\* wrong arity with the value kind Other instead of raising
determine_column_type_no_arity_check(name, column_type_str) ==
    LET structure == parse_ch_types(Lower(column_type_str))
        value_of(i) == IF HasArgs(structure) /\ Len(structure.args) >= i
                       THEN resolve_datatype(structure.args[i].data_type)
                       ELSE ValueType_OTHER
    IN  IF structure = None
        THEN Raised("AttributeError")
        ELSE IF structure.data_type = ArrayWord
        THEN [column_type |-> ColumnType_ARRAY, value_data_type |-> value_of(1),
              key_data_type |-> None]
        ELSE IF structure.data_type = MapWord
        THEN [column_type |-> ColumnType_MAP, value_data_type |-> value_of(2),
              key_data_type |-> value_of(1)]
        ELSE IF Contains(name, <<".">>)
        THEN [column_type |-> ColumnType_GROUPED,
              value_data_type |-> resolve_datatype(structure.data_type),
              key_data_type |-> None]
        ELSE [column_type |-> ColumnType_BASIC,
              value_data_type |-> resolve_datatype(structure.data_type),
              key_data_type |-> None]

\* the tuple determine_column_type returns, or the exception it raises
determine_column_type(name, column_type_str) ==
    LET structure == parse_ch_types(Lower(column_type_str))
    IN  IF structure = None
        THEN Raised("AttributeError")      \* None has no attribute 'get'
        ELSE IF structure.data_type = ArrayWord
        THEN IF HasArgs(structure)
             THEN [column_type |-> ColumnType_ARRAY,
                   value_data_type |-> resolve_datatype(structure.args[1].data_type),
                   key_data_type |-> None]
             ELSE Raised("ValueError")
        ELSE IF structure.data_type = MapWord
        THEN IF HasArgs(structure) /\ Len(structure.args) = 2
             THEN [column_type |-> ColumnType_MAP,
                   value_data_type |-> resolve_datatype(structure.args[2].data_type),
                   key_data_type |-> resolve_datatype(structure.args[1].data_type)]
             ELSE Raised("ValueError")
        ELSE IF Contains(name, <<".">>)
        THEN [column_type |-> ColumnType_GROUPED,
              value_data_type |-> resolve_datatype(structure.data_type),
              key_data_type |-> None]
        ELSE [column_type |-> ColumnType_BASIC,
              value_data_type |-> resolve_datatype(structure.data_type),
              key_data_type |-> None]

-----------------------------------------------------------------------------
(* The type strings given to the parser: a core type, wrapped in annotation *)
(* wrappers, rendered as ClickHouse writes it ("Name(arg, arg)") in some    *)
(* letter case, and then possibly unbalanced by one parenthesis.            *)

MaxWrappers == 2

MaxArgs == 2

Nullable == <<"N","u","l","l","a","b","l","e">>

LowCardinality == <<"L","o","w","C","a","r","d","i","n","a","l","i","t","y">>

ArrayName == <<"A","r","r","a","y">>

MapName == <<"M","a","p">>

TupleName == <<"T","u","p","l","e">>

StringName == <<"S","t","r","i","n","g">>

Int8Name == <<"I","n","t","8">>

Scalar(name) == [name |-> name, call |-> FALSE, args |-> <<>>]

Call(name, args) == [name |-> name, call |-> TRUE, args |-> args]

SeqsUpTo(S, n) == UNION { [1..k -> S] : k \in 0..n }

WrapperNames == {Nullable, LowCardinality}

ScalarTypes == {Scalar(StringName), Scalar(Int8Name)}

ArgTypes ==
    ScalarTypes \cup { Call(TupleName, <<Scalar(Int8Name), Scalar(Int8Name)>>),
                       Call(Nullable, <<Scalar(StringName)>>) }

ContainerNames == {ArrayName, MapName, TupleName}

CoreTypes ==
    ScalarTypes \cup { Scalar(ArrayName), Scalar(MapName) }
                \cup { Call(name, args) : name \in ContainerNames,
                                          args \in SeqsUpTo(ArgTypes, MaxArgs) }

LetterCases == {"as_written", "lower", "upper"}

Recase(s, letter_case) ==
    CASE letter_case = "lower" -> Lower(s)
      [] letter_case = "upper" -> Upper(s)
      [] OTHER -> s

RECURSIVE Wrap(_, _)
Wrap(wrappers, core) ==
    IF wrappers = <<>> THEN core
    ELSE Call(Head(wrappers), <<Wrap(Tail(wrappers), core)>>)

RECURSIVE Render(_)
RECURSIVE RenderArgs(_)

RenderArgs(args) ==
    IF args = <<>> THEN <<>>
    ELSE IF Len(args) = 1 THEN Render(args[1])
    ELSE Render(args[1]) \o <<",", " ">> \o RenderArgs(Tail(args))

Render(t) ==
    IF t.call THEN t.name \o <<"(">> \o RenderArgs(t.args) \o <<")">> ELSE t.name

\* the string with character i removed / with c put after character i
DeleteAt(s, i) == SubSeq(s, 1, i - 1) \o SubSeq(s, i + 1, Len(s))

InsertAfter(s, i, c) == SubSeq(s, 1, i) \o <<c>> \o SubSeq(s, i + 1, Len(s))

\* every ")" closes an earlier "(", and every "(" is closed
Balanced(s) ==
    /\ \A k \in 1..Len(s) : Count(s, ")", k) <= Count(s, "(", k)
    /\ Count(s, ")", Len(s)) = Count(s, "(", Len(s))

-----------------------------------------------------------------------------
(* The parser and the classifier applied to one type string *)

\* the column names the classifier is asked about: a plain one and a dotted one
PlainName == <<"n","a","m","e">>

DottedName == <<"i","d","s",".","l","a","b","e","l">>

ColumnNames == {PlainName, DottedName}

\* no profiling run
\* no call of ch_df_utils
FrameIdle == call = None /\ call_result = NotRun

ProfileIdle ==
    /\ config = None /\ lc_probe = FALSE /\ pc = "idle"
    /\ schema = <<>> /\ rows = 0 /\ columns = <<>>
    /\ batch_start = 0 /\ queries = <<>> /\ raised = None

ParseInit ==
    /\ ProfileIdle
    /\ FrameIdle
    /\ given \in [wrappers : SeqsUpTo(WrapperNames, MaxWrappers),
                  core : CoreTypes,
                  letter_case : LetterCases,
                  edit : {"none"}]
    /\ type_string = Recase(Render(Wrap(given.wrappers, given.core)), given.letter_case)
    /\ column_name = <<>>
    /\ parsed = NotRun
    /\ classified = NotRun

ParseChTypes ==
    /\ parsed = NotRun /\ classified = NotRun
    /\ parsed' = parse_ch_types(type_string)
    /\ UNCHANGED <<given, type_string, column_name, classified>>
    /\ UNCHANGED <<profile_vars, frame_vars>>

DetermineColumnType ==
    /\ parsed = NotRun /\ classified = NotRun
    /\ \E name \in ColumnNames :
          /\ column_name' = name
          /\ classified' = determine_column_type(name, type_string)
    /\ UNCHANGED <<given, type_string, parsed>>
    /\ UNCHANGED <<profile_vars, frame_vars>>

ParseNext == ParseChTypes \/ DetermineColumnType

SpecParse == ParseInit /\ [][ParseNext]_vars

-----------------------------------------------------------------------------
(* The parser applied to a type string with one parenthesis too few or too many *)

UnbalancedInit == ParseInit /\ given.letter_case = "as_written"

\* one parenthesis is dropped from the string
DropParen ==
    /\ given.edit = "none"
    /\ parsed = NotRun /\ classified = NotRun
    /\ \E i \in 1..Len(type_string) :
          /\ type_string[i] \in {"(", ")"}
          /\ type_string' = DeleteAt(type_string, i)
    /\ given' = [given EXCEPT !.edit = "drop"]
    /\ UNCHANGED <<column_name, parsed, classified>>
    /\ UNCHANGED <<profile_vars, frame_vars>>

\* one surplus parenthesis is put into the string
AddParen ==
    /\ given.edit = "none"
    /\ parsed = NotRun /\ classified = NotRun
    /\ \E i \in 0..Len(type_string), c \in {"(", ")"} :
          type_string' = InsertAfter(type_string, i, c)
    /\ given' = [given EXCEPT !.edit = "add"]
    /\ UNCHANGED <<column_name, parsed, classified>>
    /\ UNCHANGED <<profile_vars, frame_vars>>

UnbalancedNext == DropParen \/ AddParen \/ ParseChTypes

SpecUnbalanced == UnbalancedInit /\ [][UnbalancedNext]_vars

-----------------------------------------------------------------------------
(* profiled_table.columns: a dict, kept as its items in insertion order *)

Keys(dict) == { dict[i].key : i \in 1..Len(dict) }

HasKey(dict, key) == \E i \in 1..Len(dict) : dict[i].key = key

\* dict[key], for a key that is there
Get(dict, key) == dict[CHOOSE i \in 1..Len(dict) : dict[i].key = key].value

\* dict[key] = value: a key that is there keeps its place
Put(dict, key, value) ==
    IF HasKey(dict, key)
    THEN [i \in 1..Len(dict) |->
             IF dict[i].key = key THEN [key |-> key, value |-> value] ELSE dict[i]]
    ELSE Append(dict, [key |-> key, value |-> value])

-----------------------------------------------------------------------------
(* ColumnProfile, ColumnDetails, NestedColumnInfo, GroupedColumnInfo *)

\* ColumnProfile(): every statistic None, value_list an empty dict
ColumnProfile ==
    [min_value |-> None, max_value |-> None, avg_value |-> None,
     value_rows |-> None, unique_values |-> None, unique_keys |-> None,
     value_list |-> <<>>, has_values |-> FALSE]

NestedColumnInfo(parent_name) ==
    [class |-> "NestedColumnInfo", parent_name |-> parent_name, subcolumns |-> <<>>,
     column_type |-> ColumnType_NESTED, profile |-> None]

\* GroupedColumnInfo's column_type defaults to ColumnType.NESTED too
GroupedColumnInfo(parent_name) ==
    [class |-> "GroupedColumnInfo", parent_name |-> parent_name, subcolumns |-> <<>>,
     column_type |-> ColumnType_NESTED, profile |-> None]

IsFamily(object) == object.class \in {"NestedColumnInfo", "GroupedColumnInfo"}

-----------------------------------------------------------------------------
(* The schema resolution loop of profile_ch_table *)

\* column_name.split('.', 1), for a name with a dot in it
SplitDot(name) ==
    LET dot == Index(name, ".")
    IN  [parent_name |-> SubSeq(name, 1, dot - 1),
         child_name |-> SubSeq(name, dot + 1, Len(name))]

\* ColumnDetails(name=..., type=..., ...), as the loop body builds it
ColumnDetails(name, column_type_str, kinds, parent_name, child_name, is_first_nested) ==
    [class |-> "ColumnDetails",
     name |-> name,
     type |-> column_type_str,
     column_type |-> kinds.column_type,
     key_data_type |-> kinds.key_data_type,
     value_data_type |-> kinds.value_data_type,
     required |-> FALSE,
     is_nested |-> IF is_first_nested THEN Some(TRUE) ELSE None,
     is_nested_subcolumn |-> IF parent_name # None THEN Some(TRUE) ELSE None,
     parent_name |-> parent_name,
     child_name |-> child_name,
     nested_path |-> IF parent_name # None /\ parent_name.some # <<>> /\ child_name # <<>>
                     THEN <<parent_name.some, child_name>> ELSE <<name>>,
     profile |-> None]

\* the family a first dotted column of a parent creates
NewFamily(parent_name, column_type) ==
    IF column_type = ColumnType_GROUPED
    THEN GroupedColumnInfo(parent_name)
    ELSE NestedColumnInfo(parent_name)

\* a dotted column: the family is created if its parent is not a key yet, and
\* the column is appended to the subcolumns of what the parent key holds
ResolveDotted(dict, name, column_type_str, kinds, parent_name, child_name) ==
    LET is_first_nested == ~HasKey(dict, parent_name)
        held == IF is_first_nested
                THEN NewFamily(parent_name, kinds.column_type)
                ELSE Get(dict, parent_name)
    IN  IF ~IsFamily(held)
        THEN Raised("AttributeError")     \* ColumnDetails has no subcolumns
        ELSE [columns |-> Put(dict, parent_name,
                 [held EXCEPT !.subcolumns =
                     Append(@, ColumnDetails(name, column_type_str, kinds,
                                             Some(parent_name), child_name,
                                             is_first_nested))])]

\* the loop body once determine_column_type has answered
Resolved(dict, name, column_type_str, kinds) ==
    IF IsRaised(kinds) THEN kinds
    ELSE IF Contains(name, <<".">>)
    THEN ResolveDotted(dict, name, column_type_str, kinds,
                       SplitDot(name).parent_name, SplitDot(name).child_name)
    ELSE [columns |-> Put(dict, name,
             ColumnDetails(name, column_type_str, kinds, None, name, FALSE))]

\* one pass of the loop body over a row of schema_df: the dict afterwards, or
\* the exception the pass raises (the dict is then as it was)
ResolveRow(dict, row) ==
    Resolved(dict, row.name, Lower(row.type),
             determine_column_type(row.name, Lower(row.type)))

-----------------------------------------------------------------------------
(* The second pass of profile_ch_table: probe_columns_batch *)

batch_size == 10

\* the mutant of ShouldProfile that profiles an empty table too
ShouldProfile_always(row_count) == row_count >= 0

\* if row_count > 0: only profile if there's data
ShouldProfile(row_count) == row_count > 0

\* the items of profiled_table.columns that the second pass profiles
ColumnsToProfile(dict) ==
    LET Kept(item) == ~(/\ item.value.class = "ColumnDetails"
                        /\ item.value.is_nested_subcolumn = Some(TRUE))
    IN  SelectSeq(dict, Kept)

Min(a, b) == IF a < b THEN a ELSE b

\* columns_to_profile[i:i+batch_size], as the positions it covers
BatchRange(dict, i) == (i + 1)..Min(i + batch_size, Len(ColumnsToProfile(dict)))

\* one aggregate of a query: the expression, the column it reads, and the
\* result key "<column>__<metric>" it is given
Part(column, metric, expression, reads) ==
    [column |-> column, metric |-> metric, expression |-> expression, reads |-> reads]

\* the mutant of SelectParts that gives the aggregates of an Array of String
\* to an Array of any value kind
SelectParts_any_array(name, details, cfg) ==
    IF details.column_type = ColumnType_MAP
    THEN [parts |-> << Part(name, "map_keys", "groupUniqArrayArray(mapKeys)", name),
                       Part(name, "distinct_count",
                            "arrayUniq(flatten(groupArrayArray(mapKeys)))", name),
                       Part(name, "value_rows", "countIf(length(mapKeys) > 0)", name) >>]
    ELSE IF details.column_type = ColumnType_ARRAY
    THEN [parts |-> << Part(name, "value_rows",
                            "countIf(IS NOT NULL and length > 0)", name),
                       Part(name, "distinct_count", "uniq", name) >>]
    ELSE IF details.column_type = ColumnType_GROUPED
    THEN [parts |-> <<>>]
    ELSE IF details.column_type = ColumnType_NESTED
    THEN IF cfg = None
         THEN Raised("AttributeError")          \* None has no attribute 'get'
         ELSE LET first_column == details.subcolumns[1]
                  type_column == IF details.parent_name \in DOMAIN cfg.dict
                                 THEN cfg.dict[details.parent_name]
                                 ELSE first_column.child_name
                  reads == details.parent_name \o <<".">> \o type_column
              IN  [parts |-> << Part(name, "map_keys",
                                     "arrayDistinct(arrayFlatten(groupArray))", reads),
                                Part(name, "value_rows",
                                     "countIf(length(arrayFlatten) > 0)", reads) >>]
    ELSE IF details.value_data_type = ValueType_DATE
    THEN [parts |-> << Part(name, "min_value", "min", name),
                       Part(name, "max_value", "max", name),
                       Part(name, "value_rows", "countIf(IS NOT NULL)", name) >>]
    ELSE IF details.value_data_type = ValueType_NUMBER
    THEN [parts |-> << Part(name, "min_value", "min", name),
                       Part(name, "max_value", "max", name),
                       Part(name, "value_rows", "countIf(IS NOT NULL and <> 0)", name) >>]
    ELSE IF details.value_data_type = ValueType_STRING
    THEN [parts |-> << Part(name, "distinct_count", "uniq", name),
                       Part(name, "value_rows", "countIf(IS NOT NULL and != '')", name) >>]
    ELSE [parts |-> << Part(name, "distinct_count", "uniq", name),
                       Part(name, "value_rows", "countIf(IS NOT NULL)", name) >>]

\* the select parts one column adds to the batch query, or the exception
\* that building them raises
SelectParts(name, details, cfg) ==
    IF details.column_type = ColumnType_MAP
    THEN [parts |-> << Part(name, "map_keys", "groupUniqArrayArray(mapKeys)", name),
                       Part(name, "distinct_count",
                            "arrayUniq(flatten(groupArrayArray(mapKeys)))", name),
                       Part(name, "value_rows", "countIf(length(mapKeys) > 0)", name) >>]
    ELSE IF details.column_type = ColumnType_ARRAY
    THEN IF details.value_data_type = ValueType_STRING
         THEN [parts |-> << Part(name, "value_rows",
                                 "countIf(IS NOT NULL and length > 0)", name),
                            Part(name, "distinct_count", "uniq", name) >>]
         ELSE [parts |-> <<>>]
    ELSE IF details.column_type = ColumnType_GROUPED
    THEN [parts |-> <<>>]
    ELSE IF details.column_type = ColumnType_NESTED
    THEN IF cfg = None
         THEN Raised("AttributeError")          \* None has no attribute 'get'
         ELSE LET first_column == details.subcolumns[1]
                  type_column == IF details.parent_name \in DOMAIN cfg.dict
                                 THEN cfg.dict[details.parent_name]
                                 ELSE first_column.child_name
                  reads == details.parent_name \o <<".">> \o type_column
              IN  [parts |-> << Part(name, "map_keys",
                                     "arrayDistinct(arrayFlatten(groupArray))", reads),
                                Part(name, "value_rows",
                                     "countIf(length(arrayFlatten) > 0)", reads) >>]
    ELSE IF details.value_data_type = ValueType_DATE
    THEN [parts |-> << Part(name, "min_value", "min", name),
                       Part(name, "max_value", "max", name),
                       Part(name, "value_rows", "countIf(IS NOT NULL)", name) >>]
    ELSE IF details.value_data_type = ValueType_NUMBER
    THEN [parts |-> << Part(name, "min_value", "min", name),
                       Part(name, "max_value", "max", name),
                       Part(name, "value_rows", "countIf(IS NOT NULL and <> 0)", name) >>]
    ELSE IF details.value_data_type = ValueType_STRING
    THEN [parts |-> << Part(name, "distinct_count", "uniq", name),
                       Part(name, "value_rows", "countIf(IS NOT NULL and != '')", name) >>]
    ELSE [parts |-> << Part(name, "distinct_count", "uniq", name),
                       Part(name, "value_rows", "countIf(IS NOT NULL)", name) >>]

RECURSIVE Flatten(_)
Flatten(lists) == IF lists = <<>> THEN <<>> ELSE Head(lists) \o Flatten(Tail(lists))

\* select_parts of a batch, or the exception raised while building it
BuildSelectParts(batch, cfg) ==
    LET each == [k \in 1..Len(batch) |-> SelectParts(batch[k].key, batch[k].value, cfg)]
    IN  IF \E k \in 1..Len(batch) : IsRaised(each[k])
        THEN each[CHOOSE k \in 1..Len(batch) :
                      IsRaised(each[k]) /\ \A j \in 1..(k - 1) : ~IsRaised(each[j])]
        ELSE [parts |-> Flatten([k \in 1..Len(batch) |-> each[k].parts])]

\* unique_values < 200 in profile_low_cardinality_columns
LowCardinalityBound == 200

\* what the table holds, as far as the aggregates tell: no value in any
\* column, one distinct value, two, or as many as the low-cardinality bound
Answers == {"empty", "single", "filled", "many"}

KeyOne == <<"k","1">>

KeyTwo == <<"k","2">>

\* the value ClickHouse returns for one aggregate of the batch query (of the
\* map keys of a table with many, the first two)
ResultValue(metric, answer, row_count) ==
    CASE metric = "value_rows" -> IF answer = "empty" THEN 0 ELSE row_count
      [] metric = "distinct_count" ->
            IF answer = "empty" THEN 0
            ELSE IF answer = "single" THEN 1
            ELSE IF answer = "filled" THEN 2
            ELSE LowCardinalityBound
      [] metric = "map_keys" ->
            IF answer = "empty" THEN <<>>
            ELSE IF answer = "single" THEN <<KeyOne>>
            ELSE <<KeyOne, KeyTwo>>
      [] metric = "min_value" -> IF answer = "empty" THEN 0 ELSE 1
      [] metric = "max_value" -> IF answer = "empty" THEN 0 ELSE 9

\* the mutant of SetMetric that leaves has_values as it was
SetMetric_stale(profile, metric, value) ==
    CASE metric = "map_keys" -> [profile EXCEPT !.unique_keys = Some(value)]
      [] metric = "distinct_count" -> [profile EXCEPT !.unique_values = Some(value)]
      [] metric = "min_value" -> [profile EXCEPT !.min_value = Some(value)]
      [] metric = "max_value" -> [profile EXCEPT !.max_value = Some(value)]
      [] metric = "value_rows" -> [profile EXCEPT !.value_rows = Some(value)]
      [] OTHER -> profile

\* the assignment to the profile attribute that the metric names
SetMetric(profile, metric, value) ==
    CASE metric = "map_keys" -> [profile EXCEPT !.unique_keys = Some(value)]
      [] metric = "distinct_count" -> [profile EXCEPT !.unique_values = Some(value)]
      [] metric = "min_value" -> [profile EXCEPT !.min_value = Some(value)]
      [] metric = "max_value" -> [profile EXCEPT !.max_value = Some(value)]
      [] metric = "value_rows" -> [profile EXCEPT !.value_rows = Some(value),
                                                  !.has_values = value > 0]
      [] OTHER -> profile

RECURSIVE MergeParts(_, _, _, _)
\* the profile of one column after the result keys in parts were processed
MergeParts(profile, parts, answer, row_count) ==
    IF parts = <<>> THEN profile
    ELSE LET started == IF profile = None THEN ColumnProfile ELSE profile
             part == Head(parts)
         IN  MergeParts(SetMetric(started, part.metric,
                                  ResultValue(part.metric, answer, row_count)),
                        Tail(parts), answer, row_count)

\* the parts of the query whose result key names the column
PartsOf(select_parts, name) ==
    LET Named(part) == part.column = name IN SelectSeq(select_parts, Named)

\* profiled_table.columns after the result row of a batch query was processed
MergeBatch(dict, range, select_parts, answer, row_count) ==
    LET items == ColumnsToProfile(dict)
    IN  [ i \in 1..Len(dict) |->
            IF \E k \in range : items[k].key = dict[i].key
            THEN [dict[i] EXCEPT !.value.profile =
                     MergeParts(@, PartsOf(select_parts, dict[i].key), answer, row_count)]
            ELSE dict[i] ]

-----------------------------------------------------------------------------
(* profile_low_cardinality_columns *)

DoubleUnderscore == <<"_","_">>

\* the mutant of LowCardinalityParts that takes the bound itself as low
LowCardinalityParts_inclusive(name, details) ==
    IF /\ details.class = "ColumnDetails"
       /\ details.value_data_type = ValueType_STRING
       /\ details.profile # None
       /\ details.profile.unique_values # None
       /\ details.profile.unique_values.some > 1
       /\ details.profile.unique_values.some <= LowCardinalityBound
    THEN IF /\ details.column_type = ColumnType_MAP
            /\ details.profile.unique_keys # None
            /\ details.profile.unique_keys.some # <<>>
         THEN LET unique_keys == details.profile.unique_keys.some
              IN  [k \in 1..Len(unique_keys) |->
                      Part(name, unique_keys[k], "arraySort(groupUniqArray(trim))", name)]
         ELSE IF details.column_type = ColumnType_BASIC
         THEN << Part(name, name, "arraySort(groupUniqArray)", name) >>
         ELSE <<>>
    ELSE <<>>

\* the select parts one column adds to the low-cardinality query
LowCardinalityParts(name, details) ==
    IF /\ details.class = "ColumnDetails"
       /\ details.value_data_type = ValueType_STRING
       /\ details.profile # None
       /\ details.profile.unique_values # None
       /\ details.profile.unique_values.some > 1
       /\ details.profile.unique_values.some < LowCardinalityBound
    THEN IF /\ details.column_type = ColumnType_MAP
            /\ details.profile.unique_keys # None
            /\ details.profile.unique_keys.some # <<>>
         THEN LET unique_keys == details.profile.unique_keys.some
              IN  [k \in 1..Len(unique_keys) |->
                      Part(name, unique_keys[k], "arraySort(groupUniqArray(trim))", name)]
         ELSE IF details.column_type = ColumnType_BASIC
         THEN << Part(name, name, "arraySort(groupUniqArray)", name) >>
         ELSE <<>>
    ELSE <<>>

BuildLowCardinalityParts(items) ==
    Flatten([k \in 1..Len(items) |-> LowCardinalityParts(items[k].key, items[k].value)])

\* the sorted distinct values ClickHouse returns for one part
ValueList == << <<"a">>, <<"b">> >>

\* value_list[key] = values
SetValueList(value_list, key, values) == Put(value_list, key, values)

RECURSIVE MergeValueLists(_, _)
MergeValueLists(profile, parts) ==
    IF parts = <<>> THEN profile
    ELSE MergeValueLists(
             [profile EXCEPT !.value_list = SetValueList(@, Head(parts).metric, ValueList)],
             Tail(parts))

\* key.rsplit('__') gives the three names only when neither the column name
\* nor the value key holds a double underscore
SplitsInThree(part) ==
    ~Contains(part.column, DoubleUnderscore) /\ ~Contains(part.metric, DoubleUnderscore)

\* profiled_table.columns after the result row of the low-cardinality query
MergeLowCardinality(dict, select_parts) ==
    [ i \in 1..Len(dict) |->
        IF PartsOf(select_parts, dict[i].key) # <<>>
        THEN [dict[i] EXCEPT !.value.profile =
                 MergeValueLists(@, PartsOf(select_parts, dict[i].key))]
        ELSE dict[i] ]

-----------------------------------------------------------------------------
(* A profiling run: profile_ch_table *)

MaxColumns == 2

IdsName == <<"i","d","s">>

KindName == <<"k","i","n","d">>

StringType == Render(Scalar(StringName))

Column(name, type) == [name |-> name, type |-> type]

\* the columns a table may have, besides the padding
TableColumns ==
    { Column(<<"n","a","m","e">>, StringType),
      Column(<<"i","d","s",".","l","a","b","e","l">>,
             Render(Call(ArrayName, <<Scalar(StringName)>>))),
      Column(<<"i","d","s",".","k","i","n","d">>, StringType),
      Column(IdsName, StringType),
      Column(<<"d","i","m","s",".","k">>,
             Render(Call(MapName, <<Scalar(StringName), Scalar(StringName)>>))),
      Column(<<"p","r","o","p","s">>,
             Render(Call(MapName, <<Scalar(StringName), Scalar(StringName)>>))),
      Column(<<"s","c","o","r","e","s">>,
             Render(Call(ArrayName, <<Scalar(Int8Name)>>))) }

Digits == <<"0","1","2","3","4","5","6","7","8","9">>

\* the types of the padding: a String, a Number, a Date, a UUID and a Boolean
PaddingTypes ==
    << StringName, Int8Name, <<"D","a","t","e">>, <<"U","U","I","D">>, <<"B","o","o","l">> >>

\* batch_size plain columns c0, c1, ... of these types in turn, which fill
\* the first batch
Padding ==
    [k \in 1..batch_size |->
        Column(<<"c", Digits[k]>>,
               Render(Scalar(PaddingTypes[((k - 1) % Len(PaddingTypes)) + 1])))]

Configs == { None, [dict |-> <<>>], [dict |-> (IdsName :> KindName)] }

RowCounts == {0, 3}

\* a query given to ch_client, and how it ended: "ok", "error" when it raised
\* ClickHouseError, "missing" when SHOW TABLES does not list the table, "empty"
\* when DESCRIBE gives no schema
Query(kind, select_parts, outcome) ==
    [kind |-> kind, select_parts |-> select_parts, outcome |-> outcome]

\* the mutant of Raise that records the exception and goes on with the schema
Raise_and_go_on(exception) ==
    /\ pc' = "resolve"
    /\ raised' = Raised(exception)

\* the run ends with the exception leaving profile_ch_table
Raise(exception) ==
    /\ pc' = "raised"
    /\ raised' = Raised(exception)

ProfileInit ==
    /\ given = [wrappers |-> <<>>, core |-> Scalar(StringName),
                letter_case |-> "as_written", edit |-> "none"]
    /\ type_string = <<>> /\ column_name = <<>>
    /\ parsed = NotRun /\ classified = NotRun
    /\ config \in Configs
    /\ lc_probe \in BOOLEAN
    /\ pc = "show_tables"
    /\ schema = <<>>
    /\ rows = 0
    /\ columns = <<>>
    /\ batch_start = 0
    /\ queries = <<>>
    /\ raised = None
    /\ FrameIdle

\* SHOW TABLES: the table is there, is not there, or the query fails
ShowTables ==
    /\ pc = "show_tables"
    /\ \E outcome \in {"ok", "missing", "error"} :
          /\ queries' = Append(queries, Query("show_tables", <<>>, outcome))
          /\ CASE outcome = "ok" -> pc' = "describe" /\ raised' = raised
               [] outcome = "missing" -> Raise("ValueError")
               [] outcome = "error" -> Raise("ClickHouseError")
    /\ UNCHANGED <<config, lc_probe, schema, rows, columns, batch_start>>
    /\ UNCHANGED <<parse_vars, frame_vars>>

\* DESCRIBE TABLE: a schema with rows, none or an empty one, or the query fails
DescribeTable ==
    /\ pc = "describe"
    /\ \E outcome \in {"ok", "empty", "error"} :
          /\ queries' = Append(queries, Query("describe", <<>>, outcome))
          /\ CASE outcome = "ok" -> pc' = "count" /\ raised' = raised
               [] outcome = "empty" -> Raise("ValueError")
               [] outcome = "error" -> Raise("ClickHouseError")
    /\ UNCHANGED <<config, lc_probe, schema, rows, columns, batch_start>>
    /\ UNCHANGED <<parse_vars, frame_vars>>

\* SELECT count(): the number of rows, or the query fails
CountRows ==
    /\ pc = "count"
    /\ \/ /\ \E n \in RowCounts : rows' = n
          /\ queries' = Append(queries, Query("count", <<>>, "ok"))
          /\ pc' = "resolve" /\ raised' = raised
       \/ /\ rows' = rows
          /\ queries' = Append(queries, Query("count", <<>>, "error"))
          /\ Raise("ClickHouseError")
    /\ UNCHANGED <<config, lc_probe, schema, columns, batch_start>>
    /\ UNCHANGED <<parse_vars, frame_vars>>

Names(rows_taken) == { rows_taken[k].name : k \in 1..Len(rows_taken) }

\* the rows schema_df may hold next: the padding comes first and whole, then
\* up to MaxColumns columns of the table, each name once
NextRows ==
    IF schema = <<>>
    THEN {Padding[1]} \cup TableColumns
    ELSE IF Len(schema) < batch_size /\ schema[1] = Padding[1]
    THEN {Padding[Len(schema) + 1]}
    ELSE { c \in TableColumns :
               /\ c.name \notin Names(schema)
               /\ Cardinality(Names(schema) \ Names(Padding)) < MaxColumns }

\* one pass of the loop over schema_df.iterrows()
ResolveColumn ==
    /\ pc = "resolve"
    /\ \E row \in NextRows :
          LET result == ResolveRow(columns, row)
          IN  /\ schema' = Append(schema, row)
              /\ IF IsRaised(result)
                 THEN columns' = columns /\ Raise(result.raised)
                 ELSE columns' = result.columns /\ pc' = pc /\ raised' = raised
    /\ UNCHANGED <<config, lc_probe, rows, batch_start, queries>>
    /\ UNCHANGED <<parse_vars, frame_vars>>

\* where the run goes once the batch loop is over
AfterBatches == IF lc_probe THEN "lc_probe" ELSE "returned"

\* the loop over schema_df is over: the second pass starts, or the run returns
EndOfSchema ==
    /\ pc = "resolve"
    /\ schema # <<>>
    /\ \/ schema[1] # Padding[1]
       \/ Len(schema) >= batch_size
    /\ pc' = IF ShouldProfile(rows)
             THEN (IF Len(ColumnsToProfile(columns)) > 0 THEN "batch" ELSE AfterBatches)
             ELSE "returned"
    /\ batch_start' = 0
    /\ UNCHANGED <<config, lc_probe, schema, rows, columns, queries, raised>>
    /\ UNCHANGED <<parse_vars, frame_vars>>

\* the next pass of the batch loop, or what follows the loop
NextBatch(dict, i) ==
    IF i + batch_size < Len(ColumnsToProfile(dict)) THEN "batch" ELSE AfterBatches

\* probe_columns_batch on columns_to_profile[i:i+batch_size]
ProbeColumnsBatch ==
    /\ pc = "batch"
    /\ LET items == ColumnsToProfile(columns)
           range == BatchRange(columns, batch_start)
           batch == [k \in 1..Cardinality(range) |-> items[batch_start + k]]
           built == BuildSelectParts(batch, config)
       IN  IF IsRaised(built)
           THEN /\ Raise(built.raised)
                /\ UNCHANGED <<columns, batch_start, queries>>
           ELSE /\ \/ \* ClickHouseError: caught and logged
                      /\ queries' = Append(queries, Query("batch", built.parts, "error"))
                      /\ columns' = columns
                   \/ \* "SELECT  FROM" is no query: an answer needs a select part
                      /\ built.parts # <<>>
                      /\ queries' = Append(queries, Query("batch", built.parts, "ok"))
                      /\ \E answer \in Answers :
                            columns' = MergeBatch(columns, range, built.parts, answer, rows)
                /\ batch_start' = batch_start + batch_size
                /\ pc' = NextBatch(columns, batch_start)
                /\ raised' = raised
    /\ UNCHANGED <<config, lc_probe, schema, rows>>
    /\ UNCHANGED <<parse_vars, frame_vars>>

\* profile_low_cardinality_columns on columns_to_profile
ProfileLowCardinalityColumns ==
    /\ pc = "lc_probe"
    /\ LET select_parts == BuildLowCardinalityParts(ColumnsToProfile(columns))
       IN  IF select_parts = <<>>
           THEN /\ pc' = "returned"
                /\ UNCHANGED <<columns, queries, raised>>
           ELSE \/ \* ClickHouseError: logged and raised again
                   /\ queries' = Append(queries, Query("lc_probe", select_parts, "error"))
                   /\ columns' = columns
                   /\ Raise("ClickHouseError")
                \/ /\ queries' = Append(queries, Query("lc_probe", select_parts, "ok"))
                   /\ IF \A k \in 1..Len(select_parts) : SplitsInThree(select_parts[k])
                      THEN /\ columns' = MergeLowCardinality(columns, select_parts)
                           /\ pc' = "returned" /\ raised' = raised
                      ELSE columns' = columns /\ Raise("ValueError")
    /\ UNCHANGED <<config, lc_probe, schema, rows, batch_start>>
    /\ UNCHANGED <<parse_vars, frame_vars>>

Next ==
    \/ ShowTables
    \/ DescribeTable
    \/ CountRows
    \/ ResolveColumn
    \/ EndOfSchema
    \/ ProbeColumnsBatch
    \/ ProfileLowCardinalityColumns

Init == ProfileInit

Spec == Init /\ [][Next]_vars

-----------------------------------------------------------------------------
(* ch_df_utils: the values of records and data frames *)

\* float('nan'), the null of pandas
NaN == [nan |-> TRUE]

Str(s) == [str |-> s]

Int_(n) == [int |-> n]

Float_(n) == [float |-> n]

Uuid(s) == [uuid |-> s]

List(elements) == [list |-> elements]

Tuple(elements) == [tuple |-> elements]

\* a dict, as its items in insertion order
Dict(items) == [dict |-> items]

Item(key, value) == [key |-> key, value |-> value]

IsList(v) == "list" \in DOMAIN v

IsTuple(v) == "tuple" \in DOMAIN v

IsDict(v) == "dict" \in DOMAIN v

IsStr(v) == "str" \in DOMAIN v

\* bool(v): None, 0, 0.0, "", [], () and {} are false, nan is true
Truthy(v) ==
    CASE v = None -> FALSE
      [] IsStr(v) -> v.str # ""
      [] "int" \in DOMAIN v -> v.int # 0
      [] "float" \in DOMAIN v -> v.float # 0
      [] IsList(v) -> v.list # <<>>
      [] IsTuple(v) -> v.tuple # <<>>
      [] IsDict(v) -> v.dict # <<>>
      [] OTHER -> TRUE

-----------------------------------------------------------------------------
(* ch_df_utils: fetch_metadata *)

CH_PYTHON_CONVERTERS ==
    <<
       [key |-> <<"D","a","t","e","T","i","m","e">>, value |-> [pair |-> <<"datetime", "parse">>]],
       [key |-> <<"D","a","t","e">>, value |-> [pair |-> <<"datetime", "parse">>]],
       [key |-> <<"U","U","I","D">>, value |-> [type |-> "uuid.UUID"]],
       [key |-> <<"I","n","t">>, value |-> [type |-> "int"]],
       [key |-> <<"S","t","r","i","n","g">>, value |-> [type |-> "str"]],
       [key |-> <<"F","i","x","e","d","S","t","r","i","n","g">>, value |-> [type |-> "str"]],
       [key |-> <<"U","I","n","t">>, value |-> [type |-> "int"]],
       [key |-> <<"F","l","o","a","t">>, value |-> [type |-> "float"]],
       [key |-> <<"B","o","o","l">>, value |-> [type |-> "bool"]],
       [key |-> <<"B","o","o","l","e","a","n">>, value |-> [type |-> "bool"]],
       [key |-> <<"P","o","i","n","t">>, value |-> [type |-> "tuple"]],
       [key |-> <<"E","n","u","m">>, value |-> [pair |-> <<"str", "int">>]],
       [key |-> <<"O","b","j","e","c","t">>, value |-> [type |-> "json.dumps"]],
       [key |-> <<"I","P","v","4">>, value |-> [pair |-> <<"ipaddress.IPv4Address", "ipaddress.ip_address">>]] >>

\* str.find, counted from 1: 0 when the character is not there
Find(s, c) == Index(s, c)

\* str.rfind, counted from 1: 0 when the character is not there
RFind(s, c) ==
    IF \E i \in 1..Len(s) : s[i] = c
    THEN CHOOSE i \in 1..Len(s) : s[i] = c /\ \A j \in (i + 1)..Len(s) : s[j] # c
    ELSE 0

\* the places of the separator in s
Separators(s, c) == { i \in 1..Len(s) : s[i] = c }

\* the k-th separator of s, 0 before the first, Len(s) + 1 after the last
Separator(s, c, k) ==
    IF k = 0 THEN 0
    ELSE IF k > Cardinality(Separators(s, c)) THEN Len(s) + 1
    ELSE CHOOSE i \in Separators(s, c) :
             Cardinality({ j \in Separators(s, c) : j <= i }) = k

\* str.split(c)
Split(s, c) ==
    [ k \in 1..(Cardinality(Separators(s, c)) + 1) |->
        SubSeq(s, Separator(s, c, k - 1) + 1, Separator(s, c, k) - 1) ]

RECURSIVE Join(_, _)
\* c.join(parts)
Join(parts, c) ==
    IF parts = <<>> THEN <<>>
    ELSE IF Len(parts) = 1 THEN parts[1]
    ELSE parts[1] \o <<c>> \o Join(Tail(parts), c)

DATETIME == <<"D","a","t","e","T","i","m","e">>

INT == <<"I","n","t">>

FLOAT == <<"F","l","o","a","t">>

ENUM8 == <<"E","n","u","m","8">>

ENUM == <<"E","n","u","m">>

NULLABLE == <<"n","u","l","l","a","b","l","e">>

simple_type(data_type) ==
    IF Contains(data_type, DATETIME) THEN DATETIME
    ELSE IF Contains(data_type, INT) THEN INT
    ELSE IF Contains(data_type, FLOAT) THEN FLOAT
    ELSE IF Contains(data_type, ENUM8) THEN ENUM
    ELSE data_type

RECURSIVE Unwrap(_)
\* while "(" in data_type: data_type = data_type[find("(") + 1 : rfind(")")]
Unwrap(data_type) ==
    IF Find(data_type, "(") = 0 THEN data_type
    ELSE Unwrap(SubSeq(data_type, Find(data_type, "(") + 1,
                       IF RFind(data_type, ")") = 0 THEN Len(data_type) - 1
                       ELSE RFind(data_type, ")") - 1))

\* the basic type of a column type, or the ValueError of unpacking the split
\* of a Map type into key and value
find_data_type(data_type) ==
    IF Contains(data_type, MapName)
    THEN LET parts == Split(data_type, ",")
         IN  IF Len(parts) # 2 THEN Raised("ValueError")
             ELSE LET key == Strip(SubSeq(parts[1], Find(parts[1], "(") + 1, Len(parts[1])))
                      value == <<"(">> \o Strip(parts[2])
                  IN  Join(<< Unwrap(Strip(simple_type(key))),
                              Unwrap(Strip(simple_type(value))) >>, ",")
    ELSE Unwrap(Strip(simple_type(data_type)))

\* CH_PYTHON_CONVERTERS.get(key, None)
ConverterOf(key) ==
    IF HasKey(CH_PYTHON_CONVERTERS, key) THEN Get(CH_PYTHON_CONVERTERS, key) ELSE None

\* a row of DESCRIBE: name, type and default_type
Described(name, type, default_type) ==
    [name |-> name, type |-> type, default_type |-> default_type]

\* the entry of metadata["all"] that fetch_metadata makes of a row of DESCRIBE
RowDict(row) ==
    LET lower == Lower(row.type)
        is_map == Contains(lower, MapWord)
        basic_type == find_data_type(row.type)
    IN  [name |-> row.name, type |-> row.type, default_type |-> row.default_type,
         is_map |-> is_map,
         is_req |-> ~Contains(lower, NULLABLE) /\ ~Contains(lower, ArrayWord),
         is_array |-> Contains(lower, ArrayWord \o <<"(">>),
         basic_type |-> basic_type,
         converter |-> IF is_map THEN ConverterOf(Split(basic_type, ",")[2])
                       ELSE ConverterOf(basic_type)]

\* metadata["all"]: the rows that are not ALIAS columns, keyed by name
MetadataAll(described) ==
    LET Kept(row) == row.default_type # "ALIAS"
        kept == SelectSeq(described, Kept)
    IN  [k \in 1..Len(kept) |-> Item(kept[k].name, RowDict(kept[k]))]

\* column.split("."): the last part, and the parts before it joined again
LastPart(column) == SubSeq(column, RFind(column, ".") + 1, Len(column))

ButLastParts(column) == SubSeq(column, 1, RFind(column, ".") - 1)

\* the component find_nested_columns makes of an entry of metadata["all"]
Component(value) ==
    [name |-> value.name, type |-> value.type, is_nested |-> TRUE,
     parent |-> ButLastParts(value.name), field |-> LastPart(value.name),
     basic_type |-> find_data_type(value.type)]

\* the dotted columns of an Array type, in order
NestedMembers(all) ==
    LET Kept(item) == Contains(item.key, <<".">>) /\ Contains(item.value.type, ArrayName)
    IN  SelectSeq(all, Kept)

RECURSIVE GroupByParent(_, _)
GroupByParent(members, nested_columns) ==
    IF members = <<>> THEN nested_columns
    ELSE LET component == Component(Head(members).value)
             before == IF HasKey(nested_columns, component.parent)
                       THEN Get(nested_columns, component.parent) ELSE <<>>
         IN  GroupByParent(Tail(members),
                           Put(nested_columns, component.parent, Append(before, component)))

\* metadata["nested"]: parent name -> the components of the family
find_nested_columns(all) == GroupByParent(NestedMembers(all), <<>>)

-----------------------------------------------------------------------------
(* ch_df_utils: flatten_nested_fields *)

\* del dict[key], on the items of the dict
Delete(dict, key) == LET Other(item) == item.key # key IN SelectSeq(dict, Other)

\* object.get(key), None when the key is not there
DictGet(object, key) == IF HasKey(object.dict, key) THEN Get(object.dict, key) ELSE None

\* object[key] = value
DictPut(object, key, value) == Dict(Put(object.dict, key, value))

\* del object[key]
DictDelete(object, key) == Dict(Delete(object.dict, key))

\* item.get(nested_field_name) is a list
HoldsList(item, nested_field_name) == IsList(DictGet(item, nested_field_name))

\* the mutant of Projection that leaves out the objects that give no value
Projection_dense(nested_field_values, component) ==
    LET Gives(object) == Truthy(object) /\ HasKey(object.dict, component.field)
        giving == SelectSeq(nested_field_values, Gives)
    IN  [i \in 1..Len(giving) |-> DictGet(giving[i], component.field)]

\* value_array of one component: the field of every object of the list, None
\* for an object that is None or empty
Projection(nested_field_values, component) ==
    [i \in 1..Len(nested_field_values) |->
        IF Truthy(nested_field_values[i]) /\ "field" \in DOMAIN component
        THEN DictGet(nested_field_values[i], component.field)
        ELSE None]

RECURSIVE SetComponents(_, _, _)
\* item[component["name"]] = value_array, for every component in order
SetComponents(item, nested_field_values, components) ==
    IF components = <<>> THEN item
    ELSE SetComponents(DictPut(item, Head(components).name,
                               List(Projection(nested_field_values, Head(components)))),
                       nested_field_values, Tail(components))

\* a value of the list that is neither None, empty nor a dict has no get
CanProject(nested_field_values) ==
    \A i \in 1..Len(nested_field_values) :
        Truthy(nested_field_values[i]) => IsDict(nested_field_values[i])

\* the mutant of FlattenFamily that leaves the nested field in the item
FlattenFamily_keeps_field(item, nested_field_name, components) ==
    IF ~HoldsList(item, nested_field_name) THEN item
    ELSE IF ~CanProject(DictGet(item, nested_field_name).list)
    THEN Raised("AttributeError")
    ELSE SetComponents(item, DictGet(item, nested_field_name).list, components)

\* the body of the loop over nested.items() for one item
FlattenFamily(item, nested_field_name, components) ==
    IF ~HoldsList(item, nested_field_name) THEN item
    ELSE IF ~CanProject(DictGet(item, nested_field_name).list)
    THEN Raised("AttributeError")
    ELSE DictDelete(SetComponents(item, DictGet(item, nested_field_name).list, components),
                    nested_field_name)

RECURSIVE FlattenItem(_, _)
\* the loop over nested.items() for one item: the item afterwards, or the
\* exception raised
FlattenItem(item, nested) ==
    IF nested = <<>> \/ IsRaised(item) THEN item
    ELSE FlattenItem(FlattenFamily(item, Head(nested).key, Head(nested).value),
                     Tail(nested))

\* flatten_nested_fields(client, items, database, table_name), where DESCRIBE
\* of the table gives the rows described: (metadata, items), or the exception
flatten_nested_fields(described, items) ==
    LET all == MetadataAll(described)
        nested == find_nested_columns(all)
        flat == [r \in 1..Len(items) |-> FlattenItem(items[r], nested)]
    IN  IF \E r \in 1..Len(items) : IsRaised(flat[r])
        THEN flat[CHOOSE r \in 1..Len(items) :
                      IsRaised(flat[r]) /\ \A q \in 1..(r - 1) : ~IsRaised(flat[q])]
        ELSE [metadata |-> [all |-> all, nested |-> nested], items |-> flat]

-----------------------------------------------------------------------------
(* ch_df_utils: apply_type, safe_apply_type, verify_all_value_types *)

Bool(b) == [bool |-> b]

\* the text of uuid.UUID("00000000-0000-0000-0000-000000000000")
NullUuidText == <<"0","0","0","0","0","0","0","0","-","0","0","0","0","-","0","0","0","0","-","0","0","0","0","-","0","0","0","0","0","0","0","0","0","0","0","0">>

\* the text of another UUID
SomeUuidText == <<"1","2","3","4","5","6","7","8","-","1","2","3","4","-","5","6","7","8","-","1","2","3","4","-","5","6","7","8","1","2","3","4","5","6","7","8">>

null_uuid == Uuid(NullUuidText)

\* the strings uuid.UUID takes (any case; here without braces or urn prefix)
IsUuidText(s) == Lower(s) \in {NullUuidText, SomeUuidText}

IsDigits(s) == s # <<>> /\ \A i \in 1..Len(s) : \E d \in 1..10 : Digits[d] = s[i]

DigitValue(c) == (CHOOSE d \in 1..10 : Digits[d] = c) - 1

RECURSIVE NumberOf(_)
NumberOf(s) ==
    IF s = <<>> THEN 0
    ELSE 10 * NumberOf(SubSeq(s, 1, Len(s) - 1)) + DigitValue(s[Len(s)])

RECURSIVE TextOf(_)
\* str(n) for n >= 0
TextOf(n) ==
    IF n < 10 THEN <<Digits[n + 1]>>
    ELSE TextOf(n \div 10) \o <<Digits[(n % 10) + 1]>>

\* str(value) == "nan"
SaysNan(value) == value = NaN \/ value = Str(<<"n","a","n">>)

\* str(value), for a string, a number that is no nan, a bool or a UUID
StrOf(value) ==
    CASE IsStr(value) -> value.str
      [] "int" \in DOMAIN value -> TextOf(value.int)
      [] "float" \in DOMAIN value -> TextOf(value.float) \o <<".","0">>
      [] "bool" \in DOMAIN value -> IF value.bool THEN <<"T","r","u","e">>
                                    ELSE <<"F","a","l","s","e">>
      [] "uuid" \in DOMAIN value -> value.uuid

\* isinstance(value, type)
IsInstance(value, type) ==
    CASE type = "str" -> IsStr(value)
      [] type = "int" -> "int" \in DOMAIN value \/ "bool" \in DOMAIN value
      [] type = "float" -> "float" \in DOMAIN value \/ value = NaN
      [] type = "bool" -> "bool" \in DOMAIN value
      [] type = "uuid.UUID" -> "uuid" \in DOMAIN value
      [] type = "tuple" -> IsTuple(value)

\* type(value), for a value that is not an instance of the type: the value
\* made, or the exception raised
Convert(type, value) ==
    CASE type = "str" -> Str(StrOf(value))
      [] type = "int" ->
            IF IsStr(value)
            THEN (IF IsDigits(Strip(value.str)) THEN Int_(NumberOf(Strip(value.str)))
                  ELSE Raised("ValueError"))
            ELSE IF "float" \in DOMAIN value THEN Int_(value.float)
            ELSE IF IsList(value) \/ IsTuple(value) \/ IsDict(value) THEN Raised("TypeError")
            ELSE Int_(IF value.bool THEN 1 ELSE 0)
      [] type = "float" ->
            IF IsStr(value)
            THEN (IF IsDigits(Strip(value.str)) THEN Float_(NumberOf(Strip(value.str)))
                  ELSE Raised("ValueError"))
            ELSE IF "int" \in DOMAIN value THEN Float_(value.int)
            ELSE IF "bool" \in DOMAIN value THEN Float_(IF value.bool THEN 1 ELSE 0)
            ELSE Raised("TypeError")
      [] type = "bool" -> Bool(Truthy(value))
      [] type = "uuid.UUID" ->
            IF IsStr(value)
            THEN (IF IsUuidText(value.str) THEN Uuid(Lower(value.str))
                  ELSE Raised("ValueError"))
            ELSE Raised("AttributeError")

IsType(converter, type) == converter # None /\ "type" \in DOMAIN converter /\ converter.type = type

\* the try block of apply_type: the converted value, the value itself when
\* it is an instance already, None when anything raises
TryConvert(value, converter) ==
    IF converter = None THEN None                 \* isinstance(value, None) raises
    ELSE IF "pair" \in DOMAIN converter
    THEN IF ~IsInstance(value, converter.pair[1])
         THEN (IF IsRaised(Convert(converter.pair[2], value)) THEN None
               ELSE Convert(converter.pair[2], value))
         ELSE value
    ELSE IF converter.type = "json.dumps" THEN None   \* isinstance(value, a function) raises
    ELSE IF ~IsInstance(value, converter.type)
    THEN (IF IsRaised(Convert(converter.type, value)) THEN None
          ELSE Convert(converter.type, value))
    ELSE value

\* apply_type(value, converter, required): the value returned, or the
\* exception raised
apply_type(value, converter, required) ==
    IF value = None
    THEN IF required
         THEN (IF IsType(converter, "str") THEN Str(<<>>)
               ELSE IF IsType(converter, "float") THEN Int_(0)
               ELSE IF IsType(converter, "bool") THEN Bool(FALSE)
               ELSE Raised("Exception"))         \* "Value cannot be null"
         ELSE (IF IsType(converter, "uuid.UUID") THEN null_uuid ELSE value)
    ELSE IF SaysNan(value)
    THEN (IF \E type \in {"float", "int", "bool"} : IsType(converter, type)
          THEN value ELSE None)
    ELSE TryConvert(value, converter)

\* the first exception among the values, in order, or the values themselves
AllOrRaised(values) ==
    IF \E i \in 1..Len(values) : IsRaised(values[i])
    THEN values[CHOOSE i \in 1..Len(values) :
                    IsRaised(values[i]) /\ \A j \in 1..(i - 1) : ~IsRaised(values[j])]
    ELSE [values |-> values]

\* [apply_type(v, converter, required) for v in value]
ApplyToEach(elements, converter, required) ==
    AllOrRaised([i \in 1..Len(elements) |-> apply_type(elements[i], converter, required)])

\* {k: apply_type(v, converter, required) for k, v in value.items()}
ApplyToValues(items, converter, required) ==
    LET applied == ApplyToEach([i \in 1..Len(items) |-> items[i].value], converter, required)
    IN  IF IsRaised(applied) THEN applied
        ELSE Dict([i \in 1..Len(items) |-> Item(items[i].key, applied.values[i])])

\* safe_apply_type(value, converter, required, is_map): the value returned,
\* or the exception raised
safe_apply_type(value, converter, required, is_map) ==
    IF IsList(value) \/ IsTuple(value)
    THEN LET applied == ApplyToEach(IF IsList(value) THEN value.list ELSE value.tuple,
                                    converter, required)
         IN  IF IsRaised(applied) THEN applied ELSE List(applied.values)
    ELSE IF IsDict(value) \/ is_map
    THEN IF ~IsDict(value) THEN Dict(<<>>)       \* the column is a map, the value no dict
         ELSE ApplyToValues(value.dict, converter, required)
    ELSE IF IsType(converter, "str")
    THEN IF (Truthy(value) /\ value = NaN) \/ SaysNan(value) THEN None
         ELSE IF value # None THEN Str(StrOf(value)) ELSE None
    ELSE apply_type(value, converter, required)

\* a data frame, as its columns in order: the name and the cells of each
Frame(named_cells) == [frame |-> named_cells]

\* dataframe.columns, in order
ColumnsOf(dataframe) == [i \in 1..Len(dataframe.frame) |-> dataframe.frame[i].key]

\* dataframe[column]
Cells(dataframe, column) == Get(dataframe.frame, column)

\* dataframe.drop(column, axis=1)
Drop(dataframe, column) == Frame(Delete(dataframe.frame, column))

\* dataframe[column] = dataframe[column].apply(f), where cells are f of the
\* cells: the frame, or the first exception f raised
Assign(dataframe, column, cells) ==
    IF IsRaised(AllOrRaised(cells)) THEN AllOrRaised(cells)
    ELSE Frame(Put(dataframe.frame, column, cells))

\* the body of the loop of verify_all_value_types for one column
VerifyColumn(all, dataframe, name) ==
    IF HasKey(all, name)
    THEN LET column == Get(all, name)
             cells == Cells(dataframe, name)
         IN  Assign(dataframe, column.name,
                    [i \in 1..Len(cells) |->
                        safe_apply_type(cells[i], column.converter,
                                        column.is_req, column.is_map)])
    ELSE Drop(dataframe, name)

RECURSIVE VerifyColumns(_, _, _)
VerifyColumns(all, dataframe, names) ==
    IF names = <<>> \/ IsRaised(dataframe) THEN dataframe
    ELSE VerifyColumns(all, VerifyColumn(all, dataframe, Head(names)), Tail(names))

\* verify_all_value_types(metadata, dataframe): the frame, or the exception
verify_all_value_types(all, dataframe) ==
    VerifyColumns(all, dataframe, ColumnsOf(dataframe))

-----------------------------------------------------------------------------
(* ch_df_utils: replace_none_where_needed, find_unmapped_columns, *)
(* remove_all_empty_columns                                        *)

UuidName == <<"U","U","I","D">>

\* the elements a comprehension takes from x, or the TypeError of a value
\* that cannot be iterated
Iterate(x) ==
    CASE IsList(x) -> [elements |-> x.list]
      [] IsTuple(x) -> [elements |-> x.tuple]
      [] IsDict(x) -> [elements |-> [i \in 1..Len(x.dict) |-> Str(x.dict[i].key)]]
      [] IsStr(x) -> [elements |-> [i \in 1..Len(x.str) |-> Str(<<x.str[i]>>)]]
      [] OTHER -> Raised("TypeError")

\* [f(y) for y in x], where f may raise
Comprehend(x, F(_)) ==
    IF IsRaised(Iterate(x)) THEN Iterate(x)
    ELSE LET made == AllOrRaised([i \in 1..Len(Iterate(x).elements) |->
                                     F(Iterate(x).elements[i])])
         IN  IF IsRaised(made) THEN made ELSE List(made.values)

\* pandas isnull: None and nan
IsNull(x) == x = None \/ x = NaN

\* what replace_none_where_needed makes of one cell of the column
ReplaceNone(column_meta, x) ==
    IF column_meta.is_map
    THEN IF x = None THEN Dict(<<>>) ELSE x
    ELSE IF column_meta.is_array
    THEN IF column_meta.basic_type = StringName
         THEN LET F(y) == IF Truthy(y) THEN y ELSE Str(<<>>) IN Comprehend(x, F)
         ELSE IF column_meta.basic_type = FLOAT
         THEN LET F(y) == IF IsInstance(y, "float") THEN y
                          ELSE IF Truthy(y) THEN Convert("float", y) ELSE NaN
              IN  Comprehend(x, F)
         ELSE IF column_meta.basic_type = UuidName
         THEN LET F(y) == IF Truthy(y) THEN y ELSE null_uuid IN Comprehend(x, F)
         ELSE x
    ELSE IF column_meta.basic_type = StringName
    THEN IF Truthy(x) THEN x ELSE Str(<<>>)
    ELSE IF column_meta.basic_type \in {FLOAT, INT}
    THEN IF IsNull(x) THEN Int_(0) ELSE x                 \* fillna(0)
    ELSE IF column_meta.basic_type = UuidName
    THEN IF Truthy(x) THEN x ELSE null_uuid
    ELSE x

\* the body of the loop of replace_none_where_needed for one column
ReplaceColumn(all, dataframe, name) ==
    IF ~HasKey(all, name) THEN Raised("KeyError")
    ELSE LET cells == Cells(dataframe, name)
         IN  Assign(dataframe, name,
                    [i \in 1..Len(cells) |-> ReplaceNone(Get(all, name), cells[i])])

RECURSIVE ReplaceColumns(_, _, _)
ReplaceColumns(all, dataframe, names) ==
    IF names = <<>> \/ IsRaised(dataframe) THEN dataframe
    ELSE ReplaceColumns(all, ReplaceColumn(all, dataframe, Head(names)), Tail(names))

\* replace_none_where_needed(metadata, dataframe): the frame, or the exception
replace_none_where_needed(all, dataframe) ==
    ReplaceColumns(all, dataframe, ColumnsOf(dataframe))

\* move_column(column, move_to) in find_unmapped_columns: the function is
\* declared as move_column(self, column, move_to), so the call lacks the
\* argument move_to
MoveColumnCall(column, move_to) == Raised("TypeError")

RECURSIVE DropAll(_, _)
\* dataframe.drop(columns, axis=1)
DropAll(dataframe, names) ==
    IF names = <<>> THEN dataframe ELSE DropAll(Drop(dataframe, Head(names)), Tail(names))

\* find_unmapped_columns(metadata, dataframe, move_to): the frame, or the
\* exception
find_unmapped_columns(all, dataframe, move_to) ==
    LET NotInAll(column) == ~HasKey(all, column)
        unmapped_columns == SelectSeq(ColumnsOf(dataframe), NotInAll)
    IN  IF Len(unmapped_columns) > 0 /\ move_to # None
        THEN MoveColumnCall(unmapped_columns[1], move_to.some)
        ELSE IF Len(unmapped_columns) > 0
        THEN DropAll(dataframe, unmapped_columns)
        ELSE dataframe

\* len(x) if type(x) in [list, dict] else 1
LenOrOne(x) ==
    IF IsList(x) THEN Len(x.list) ELSE IF IsDict(x) THEN Len(x.dict) ELSE 1

RECURSIVE Sum(_)
Sum(numbers) == IF numbers = <<>> THEN 0 ELSE Head(numbers) + Sum(Tail(numbers))

\* the column is dropped by remove_all_empty_columns
IsDropped(cells) ==
    \/ \A i \in 1..Len(cells) : IsNull(cells[i])                 \* isnull().all()
    \/ Sum([i \in 1..Len(cells) |-> LenOrOne(cells[i])]) = 0

\* remove_all_empty_columns(dataframe)
remove_all_empty_columns(dataframe) ==
    LET Kept(column) == ~IsDropped(column.value) IN Frame(SelectSeq(dataframe.frame, Kept))

-----------------------------------------------------------------------------
(* The calls of flatten_nested_fields *)

MaxObjects == 2

ItemsName == <<"i","t","e","m","s">>

ItemsId == <<"i","t","e","m","s",".","i","d">>

ItemsQty == <<"i","t","e","m","s",".","q","t","y">>

ItemsNote == <<"i","t","e","m","s",".","n","o","t","e">>

TagsName == <<"t","a","g","s">>

TagsLabel == <<"t","a","g","s",".","l","a","b","e","l">>

NameName == <<"n","a","m","e">>

PropsName == <<"p","r","o","p","s">>

TotalName == <<"t","o","t","a","l">>

IdField == <<"i","d">>

QtyField == <<"q","t","y">>

LabelField == <<"l","a","b","e","l">>

ArrayOf(type) == Render(Call(ArrayName, <<type>>))

\* a table whose family items has two subcolumns
OrdersTable ==
    << Described(NameName, StringType, ""),
       Described(ItemsId, ArrayOf(Scalar(StringName)), ""),
       Described(ItemsQty, ArrayOf(Scalar(Int8Name)), ""),
       Described(PropsName,
                 Render(Call(MapName, <<Scalar(StringName), Scalar(StringName)>>)), "") >>

\* a table with two families, a dotted column that is no array, and an alias
EventsTable ==
    << Described(ItemsId, ArrayOf(Scalar(StringName)), ""),
       Described(ItemsNote, StringType, ""),
       Described(TagsLabel, ArrayOf(Call(Nullable, <<Scalar(StringName)>>)), ""),
       Described(TotalName, Render(Scalar(Int8Name)), "ALIAS") >>

FlattenTables == {OrdersTable, EventsTable}

\* the objects of a nested field: null, empty, without qty, with both fields
Objects ==
    { None,
      Dict(<<>>),
      Dict(<<Item(IdField, Str(<<"a">>))>>),
      Dict(<<Item(IdField, Str(<<"b">>)), Item(QtyField, Int_(1))>>) }

\* what an item holds under "items": a list of objects, null, a string, or
\* one object that is not in a list
FamilyValues ==
    { List(objects) : objects \in SeqsUpTo(Objects, MaxObjects) }
        \cup { None, Str(<<"x">>), Dict(<<Item(IdField, Str(<<"a">>))>>) }

\* the items: with and without the field "items", and one that holds the
\* key of a subcolumn already
FlattenItems ==
    { Dict(<<Item(NameName, Str(<<"n">>)), Item(ItemsName, value)>>) :
          value \in FamilyValues }
        \cup { Dict(<<Item(NameName, Str(<<"n">>))>>),
               Dict(<<Item(ItemsId, List(<<Str(<<"z">>)>>)), Item(ItemsName, None)>>) }

\* the items that follow the first one in a batch of two
FollowingItems ==
    { Dict(<<Item(NameName, Str(<<"m">>))>>),
      Dict(<<Item(ItemsName, List(<<Dict(<<Item(QtyField, Int_(2))>>)>>)),
             Item(TagsName, List(<<Dict(<<Item(LabelField, Str(<<"t">>))>>), None>>))>>) }

FlattenCalls ==
    [function : {"flatten_nested_fields"},
     described : FlattenTables,
     items : { <<item>> : item \in FlattenItems }
                \cup { <<item, following>> : item \in FlattenItems,
                                             following \in FollowingItems }]

ParseIdle ==
    /\ given = [wrappers |-> <<>>, core |-> Scalar(StringName),
                letter_case |-> "as_written", edit |-> "none"]
    /\ type_string = <<>> /\ column_name = <<>>
    /\ parsed = NotRun /\ classified = NotRun

-----------------------------------------------------------------------------
(* The calls of the coercion functions: one column of one cell, and a few *)
(* frames with a second column                                            *)

Float64Name == <<"F","l","o","a","t","6","4">>

ValueName == <<"v","a","l","u","e">>

ExtraName == <<"e","x","t","r","a">>

PropertiesName == <<"p","r","o","p","e","r","t","i","e","s">>

KeyName == <<"k">>

CoerceTypes ==
    { Render(type) : type \in
        { Scalar(StringName), Scalar(UuidName), Scalar(Int8Name), Scalar(Float64Name),
          Call(Nullable, <<Scalar(StringName)>>),
          Call(Nullable, <<Scalar(UuidName)>>),
          Call(MapName, <<Scalar(StringName), Scalar(StringName)>>),
          Call(MapName, <<Scalar(StringName), Scalar(Int8Name)>>),
          Call(ArrayName, <<Scalar(StringName)>>),
          Call(ArrayName, <<Scalar(Float64Name)>>),
          Call(ArrayName, <<Scalar(UuidName)>>) } }

CommonCells ==
    { None, NaN,
      Str(<<>>), Str(<<"a">>), Str(<<"1","2">>), Str(<<"n","a","n">>),
      Int_(0), Int_(7),
      Dict(<<>>), Dict(<<Item(KeyName, None)>>), Dict(<<Item(KeyName, Str(<<"a">>))>>),
      List(<<>>), List(<<None, Str(<<"a">>)>>), List(<<Int_(1), Int_(2)>>),
      List(<<Int_(0)>>), List(<<None>>),
      Tuple(<<Int_(1)>>) }

\* a UUID and its text are given to the columns of strings and of UUIDs
UuidCells == { Uuid(SomeUuidText), Str(SomeUuidText) }

CellsFor(type) ==
    IF Contains(type, Int8Name) \/ Contains(type, Float64Name)
    THEN CommonCells ELSE CommonCells \cup UuidCells

FramesFor(type) ==
    { Frame(<<Item(ValueName, <<cell>>)>>) : cell \in CellsFor(type) }
        \cup { Frame(<<Item(ValueName, <<None>>), Item(ExtraName, <<Str(<<"a">>)>>)>>),
               Frame(<<Item(ValueName, <<Str(<<"a">>), None>>)>>) }

CoerceCalls ==
    UNION { [function : {"replace_none_where_needed", "verify_all_value_types"},
             described : { <<Described(ValueName, type, "")>> },
             dataframe : FramesFor(type)] : type \in CoerceTypes }

-----------------------------------------------------------------------------
(* The calls of find_unmapped_columns and remove_all_empty_columns *)

MaxRows == 2

UnmappedFrames ==
    { Frame(<<Item(ValueName, <<Str(<<"a">>)>>)>>),
      Frame(<<Item(ValueName, <<Str(<<"a">>)>>), Item(ExtraName, <<Str(<<"x">>)>>)>>),
      Frame(<<Item(ValueName, <<Str(<<"a">>)>>), Item(ExtraName, <<None>>)>>),
      Frame(<<Item(ExtraName, <<Int_(7)>>), Item(PropertiesName, <<Dict(<<>>)>>)>>),
      Frame(<<Item(ValueName, <<None>>), Item(PropertiesName, <<Dict(<<>>)>>)>>) }

\* the target table has the column value, with or without the catch-all map
UnmappedTables ==
    { <<Described(ValueName, StringType, "")>>,
      <<Described(ValueName, StringType, ""),
        Described(PropertiesName,
                  Render(Call(MapName, <<Scalar(StringName), Scalar(StringName)>>)), "")>> }

UnmappedCalls ==
    [function : {"find_unmapped_columns"},
     described : UnmappedTables,
     dataframe : UnmappedFrames,
     move_to : {None, Some(PropertiesName)}]

\* cells that are null, empty, or hold something
EmptyCells ==
    { None, NaN, List(<<>>), Dict(<<>>),
      Str(<<>>), Str(<<"a">>), List(<<Int_(1)>>) }

\* the first column holds any cells, the second one is all null or all full
EmptyFrames ==
    UNION { { Frame(<<Item(ValueName, cells), Item(ExtraName, [i \in 1..n |-> other])>>) :
                cells \in [1..n -> EmptyCells], other \in {None, Str(<<"a">>)} } :
            n \in 0..MaxRows }

EmptyCalls == [function : {"remove_all_empty_columns"}, dataframe : EmptyFrames]

-----------------------------------------------------------------------------
(* The calls of resolve_datatype: the words it looks for, two words in one *)
(* name, and names that hold none of them                                  *)

PlainWords == { <<"i","p","v","4">>, <<"j","s","o","n">> }

ResolveWords ==
    StringWords \cup NumberWords \cup DateWords \cup {UuidWord, BoolWord} \cup PlainWords

ResolveNames ==
    ResolveWords \cup { first \o second : first \in ResolveWords, second \in ResolveWords }

ResolveCalls ==
    [function : {"resolve_datatype"},
     data_type : ResolveNames \cup { Upper(name) : name \in ResolveNames }]

-----------------------------------------------------------------------------
(* bulk_insert_records of the sink: the events that come out of the jq     *)
(* transform, each one valid for SemanticEventCH or not, and what the      *)
(* insert reports                                                          *)

MaxEvents == 2

\* the parameters of flatten_nested_fields: none of them has a default
FlattenParameters == {"client", "items", "database", "table_name"}

\* the keywords bulk_insert_records passes to it
FlattenKeywords == {"client", "items"}

\* model_validate raises for an event or it does not
Validates(event) == event = "valid"

\* the events that validation keeps, each one tried on its own
validated_events(events) == SelectSeq(events, Validates)

\* what the sink does after flatten_nested_fields has returned
AfterFlatten ==
    <<"drop_extra_columns", "remove_all_empty_columns", "replace_none_where_needed", "insert_df">>

\* the calls bulk_insert_records makes, in order, and what it returns or raises
bulk_insert_records(transform, events, written_rows) ==
    LET connected == <<"get_clickhouse_connection">>
    IN  IF transform = "error"
        THEN [calls |-> connected, raised |-> "ValueError"]
        ELSE IF validated_events(events) = <<>>
        THEN [calls |-> connected, returned |-> 0]
        ELSE IF FlattenParameters \ FlattenKeywords # {}
        THEN [calls |-> connected, raised |-> "TypeError"]
        ELSE [calls |-> connected \o <<"fetch_metadata">> \o AfterFlatten,
              returned |-> written_rows]

SinkCalls ==
    [function : {"bulk_insert_records"},
     transform : {"ok", "error"},
     events : UNION { [1..n -> {"valid", "invalid"}] : n \in 0..MaxEvents },
     written_rows : 0..MaxEvents]

-----------------------------------------------------------------------------
(* One call of a function on its own *)

FrameInit ==
    /\ ParseIdle
    /\ ProfileIdle
    /\ call \in FlattenCalls \cup CoerceCalls \cup UnmappedCalls \cup EmptyCalls
                \cup ResolveCalls \cup SinkCalls
    /\ call_result = NotRun

Called(function) ==
    /\ call # None /\ call.function = function
    /\ call_result = NotRun

FlattenNestedFields ==
    /\ Called("flatten_nested_fields")
    /\ call_result' = flatten_nested_fields(call.described, call.items)
    /\ UNCHANGED <<call, parse_vars, profile_vars>>

ReplaceNoneWhereNeeded ==
    /\ Called("replace_none_where_needed")
    /\ call_result' = replace_none_where_needed(MetadataAll(call.described), call.dataframe)
    /\ UNCHANGED <<call, parse_vars, profile_vars>>

VerifyAllValueTypes ==
    /\ Called("verify_all_value_types")
    /\ call_result' = verify_all_value_types(MetadataAll(call.described), call.dataframe)
    /\ UNCHANGED <<call, parse_vars, profile_vars>>

FindUnmappedColumns ==
    /\ Called("find_unmapped_columns")
    /\ call_result' = find_unmapped_columns(MetadataAll(call.described), call.dataframe,
                                            call.move_to)
    /\ UNCHANGED <<call, parse_vars, profile_vars>>

RemoveAllEmptyColumns ==
    /\ Called("remove_all_empty_columns")
    /\ call_result' = remove_all_empty_columns(call.dataframe)
    /\ UNCHANGED <<call, parse_vars, profile_vars>>

ResolveDatatype ==
    /\ Called("resolve_datatype")
    /\ call_result' = [value_type |-> resolve_datatype(call.data_type)]
    /\ UNCHANGED <<call, parse_vars, profile_vars>>

BulkInsertRecords ==
    /\ Called("bulk_insert_records")
    /\ call_result' = bulk_insert_records(call.transform, call.events, call.written_rows)
    /\ UNCHANGED <<call, parse_vars, profile_vars>>

FrameNext ==
    \/ FlattenNestedFields
    \/ ReplaceNoneWhereNeeded
    \/ VerifyAllValueTypes
    \/ FindUnmappedColumns
    \/ RemoveAllEmptyColumns
    \/ ResolveDatatype
    \/ BulkInsertRecords

SpecFrame == FrameInit /\ [][FrameNext]_vars

-----------------------------------------------------------------------------
(* Properties of the parser and the classifier *)

LowerAll(names) == [i \in 1..Len(names) |-> Lower(names[i])]

\* the type inside the annotation wrappers of a type tree
RECURSIVE StripWrappers(_)
StripWrappers(t) ==
    IF t.call /\ t.name \in WrapperNames /\ Len(t.args) = 1
    THEN StripWrappers(t.args[1])
    ELSE t

\* the value kind the specification gives to each type name that is generated
ExpectedKind(name) ==
    CASE name = StringName -> ValueType_STRING
      [] name = Int8Name -> ValueType_NUMBER
      [] OTHER -> ValueType_OTHER

RootIs(word) == Lower(given.core.name) = word

IsMapNode(node) ==
    /\ "key" \in DOMAIN node /\ "value" \in DOMAIN node
    /\ ("args" \in DOMAIN node => node.args = <<>>)

IsNonMapNode(node) ==
    "args" \in DOMAIN node /\ "key" \notin DOMAIN node /\ "value" \notin DOMAIN node

\* the parsed arguments of a node, of either shape
ParsedArguments(node) ==
    IF "key" \in DOMAIN node THEN <<node.key, node.value>> ELSE node.args

\* C1: k annotation wrappers, in any letter case, around a well-formed core
\* type: the parse succeeds, annotations are the k wrapper names lower-cased,
\* outermost first, and data_type is the core type's name lower-cased.
C1_AnnotationsPeeled ==
    parsed # NotRun =>
        /\ parsed # None
        /\ parsed.annotations = LowerAll(given.wrappers)
        /\ parsed.data_type = Lower(given.core.name)

C1_Witness ==
    /\ parsed # NotRun
    /\ given.wrappers = <<Nullable, LowCardinality>>
    /\ given.core = Scalar(StringName)
    /\ given.letter_case = "upper"
    /\ parsed.annotations = << <<"n","u","l","l","a","b","l","e">>,
                               <<"l","o","w","c","a","r","d","i","n","a","l","i","t","y">> >>
    /\ parsed.data_type = <<"s","t","r","i","n","g">>

\* C2: a type whose root is Map parses to no node unless it has exactly two
\* top-level arguments, and where it parses the node is a map node (key and
\* value set, no args); every other node has args and no key or value.
C2_MapNeedsTwoArguments ==
    parsed # NotRun =>
        IF RootIs(MapWord)
        THEN /\ Len(given.core.args) # 2 => parsed = None
             /\ parsed # None => IsMapNode(parsed)
        ELSE parsed # None => IsNonMapNode(parsed)

\* C3: a type string with unbalanced parentheses parses to no node.
C3_UnbalancedFails ==
    (parsed # NotRun /\ ~Balanced(type_string)) => parsed = None

\* C4: a comma separates arguments only at parenthesis depth 0: Name(A1, ..., An)
\* parses to n arguments and the i-th is the parse of the whole of Ai.
C4_CommaSplitsAtDepthZero ==
    (parsed # NotRun /\ given.core.call) =>
        /\ parsed # None
        /\ Len(ParsedArguments(parsed)) = Len(given.core.args)
        /\ \A i \in 1..Len(given.core.args) :
              /\ ParsedArguments(parsed)[i] = parse_ch_types(Render(given.core.args[i]))
              /\ ParsedArguments(parsed)[i].data_type
                     = Lower(StripWrappers(given.core.args[i]).name)
              /\ Len(ParsedArguments(parsed)[i].args)
                     = Len(StripWrappers(given.core.args[i]).args)

C4_Witness ==
    /\ parsed # NotRun
    /\ given.core = Call(MapName, <<Scalar(StringName),
                                    Call(TupleName, <<Scalar(Int8Name), Scalar(Int8Name)>>)>>)
    /\ Len(ParsedArguments(parsed)) = 2
    /\ ParsedArguments(parsed)[2].data_type = <<"t","u","p","l","e">>
    /\ Len(ParsedArguments(parsed)[2].args) = 2

\* the container has the number of arguments the classifier asks for
ArityFits ==
    /\ RootIs(ArrayWord) => Len(given.core.args) > 0
    /\ RootIs(MapWord) => Len(given.core.args) = 2

ArgKind(i) == ExpectedKind(StripWrappers(given.core.args[i]).name)

\* C5: the classifier's rules in their order: root array gives Array; else
\* root map gives Map, key and value kinds from the two arguments; else a dot
\* in the name gives Grouped; else Basic.  Wrappers around the root are
\* ignored, and only a Map has a key kind.
C5_RulesInOrder ==
    classified # NotRun =>
        IF ~ArityFits THEN IsRaised(classified)
        ELSE /\ ~IsRaised(classified)
             /\ classified.column_type =
                    IF RootIs(ArrayWord) THEN ColumnType_ARRAY
                    ELSE IF RootIs(MapWord) THEN ColumnType_MAP
                    ELSE IF Contains(column_name, <<".">>) THEN ColumnType_GROUPED
                    ELSE ColumnType_BASIC
             /\ classified.value_data_type =
                    IF RootIs(ArrayWord) THEN ArgKind(1)
                    ELSE IF RootIs(MapWord) THEN ArgKind(2)
                    ELSE ExpectedKind(given.core.name)
             /\ classified.key_data_type =
                    IF RootIs(MapWord) THEN ArgKind(1) ELSE None

C5_Witness ==
    /\ classified # NotRun
    /\ column_name = DottedName
    /\ given.wrappers # <<>>
    /\ given.core = Call(MapName, <<Scalar(StringName), Scalar(Int8Name)>>)
    /\ classified = [column_type |-> ColumnType_MAP,
                     value_data_type |-> ValueType_NUMBER,
                     key_data_type |-> ValueType_STRING]

\* C8: an array type with no argument and a map type without exactly two
\* arguments make the classifier raise ValueError, and nothing else.
C8_WrongArityRaisesValueError ==
    (classified # NotRun /\ ~ArityFits) => classified = Raised("ValueError")

C8_Witness ==
    /\ classified = Raised("ValueError")
    /\ given.core = Call(MapName, <<Scalar(StringName)>>)

-----------------------------------------------------------------------------
(* Properties of a profiling run *)

\* the entries of profiled_table.columns that are families
Families == { i \in 1..Len(columns) : IsFamily(columns[i].value) }

\* C6: a family is a NestedColumnInfo recorded as Nested when its first
\* member is an Array column, and a GroupedColumnInfo recorded as Grouped
\* when its first member is anything else (a scalar, a Map).
C6_FamilyKindFollowsFirstMember ==
    \A i \in Families :
        LET family == columns[i].value
            first_member == family.subcolumns[1]
        IN  IF first_member.column_type = ColumnType_ARRAY
            THEN /\ family.class = "NestedColumnInfo"
                 /\ family.column_type = ColumnType_NESTED
            ELSE /\ family.class = "GroupedColumnInfo"
                 /\ family.column_type = ColumnType_GROUPED

\* the rows of the schema resolved so far whose name has a dot
DottedRows == { k \in 1..Len(schema) : Contains(schema[k].name, <<".">>) }

\* the first row of the schema whose name is under the parent
FirstMember(parent_name) ==
    CHOOSE k \in DottedRows :
        /\ SplitDot(schema[k].name).parent_name = parent_name
        /\ \A j \in DottedRows :
              SplitDot(schema[j].name).parent_name = parent_name => k <= j

\* how often the column is among the subcolumns of the entry
TimesMember(name, entry) ==
    IF IsFamily(entry.value)
    THEN Cardinality({ m \in 1..Len(entry.value.subcolumns) :
                          entry.value.subcolumns[m].name = name })
    ELSE 0

\* C7: while the schema resolves, every dotted column resolved so far is a
\* member, once, of the family under its parent name and of no other entry,
\* and that family is still the one its first member made, whatever columns
\* came later, a column named like the parent included.
C7_FamiliesKeepTheirMembers ==
    (pc = "resolve" /\ raised = None) =>
        \A k \in DottedRows :
            LET name == schema[k].name
                parent_name == SplitDot(name).parent_name
                first_kinds == determine_column_type(
                                   schema[FirstMember(parent_name)].name,
                                   schema[FirstMember(parent_name)].type)
            IN  /\ HasKey(columns, parent_name)
                /\ IsFamily(Get(columns, parent_name))
                /\ Get(columns, parent_name).class
                      = NewFamily(parent_name, first_kinds.column_type).class
                /\ \A i \in 1..Len(columns) :
                      TimesMember(name, columns[i])
                          = IF columns[i].key = parent_name THEN 1 ELSE 0

\* the profile of every entry, and of every member of a family, is None
NoProfiles ==
    \A i \in 1..Len(columns) :
        /\ columns[i].value.profile = None
        /\ IsFamily(columns[i].value) =>
              \A m \in 1..Len(columns[i].value.subcolumns) :
                  columns[i].value.subcolumns[m].profile = None

Issued(kind) == { k \in 1..Len(queries) : queries[k].kind = kind }

BatchFailed == \E k \in Issued("batch") : queries[k].outcome = "error"

\* the step issues a batch query
IssuesBatchQuery ==
    /\ Len(queries') = Len(queries) + 1
    /\ queries'[Len(queries')].kind = "batch"

\* C10: a batch step whose query raises ClickHouseError raises nothing and
\* leaves every profile as it was, and every batch step after such a failure
\* still issues its query and raises nothing.
C10_BatchErrorIsContained ==
    [][ pc = "batch" =>
          /\ (IssuesBatchQuery /\ queries'[Len(queries')].outcome = "error")
                => (pc' # "raised" /\ columns' = columns)
          /\ BatchFailed => (IssuesBatchQuery /\ pc' # "raised") ]_vars

\* the queries that raised, or whose answer profile_ch_table turns into an error
Failed(kind) == { k \in Issued(kind) : queries[k].outcome # "ok" }

\* C11: once SHOW TABLES, DESCRIBE and the count query have succeeded, the
\* run does not raise: it is on its way to return the table, or has returned it.
C11_RunAlwaysReturns ==
    (Issued("count") # {} /\ Failed("count") = {}) => pc # "raised"

\* C12: a missing table, a schema query that gives nothing or raises, and a
\* count query that raises make the run raise, and the failed query is the
\* last query of the run.
C12_EarlyFailureIsFatal ==
    \A kind \in {"show_tables", "describe", "count"} :
        \A k \in Failed(kind) :
            /\ k = Len(queries)
            /\ pc = "raised"
            /\ raised = Raised(IF queries[k].outcome = "error"
                               THEN "ClickHouseError" ELSE "ValueError")

C12_Witness ==
    /\ pc = "raised"
    /\ Len(queries) = 2
    /\ queries[2] = Query("describe", <<>>, "empty")

\* the keys of profiled_table.columns that hold a GroupedColumnInfo
GroupedFamilies ==
    { columns[i].key : i \in { j \in Families : columns[j].value.class = "GroupedColumnInfo" } }

\* C20: no batch query has a select part for a Grouped family, and the
\* profile of a Grouped family is never set.
C20_GroupedFamilyIsSkipped ==
    /\ \A k \in Issued("batch") :
          \A p \in 1..Len(queries[k].select_parts) :
              queries[k].select_parts[p].column \notin GroupedFamilies
    /\ \A i \in Families :
          columns[i].value.class = "GroupedColumnInfo" => columns[i].value.profile = None

-----------------------------------------------------------------------------
(* Properties of flatten_nested_fields *)

\* a call of the function has returned without raising
Returned(function) ==
    /\ call # None /\ call.function = function
    /\ call_result # NotRun /\ ~IsRaised(call_result)

\* the subcolumns of a table: the columns of an Array type with a dotted
\* name that are no aliases, as rows of DESCRIBE
Subcolumns(described) ==
    { k \in 1..Len(described) :
          /\ described[k].default_type # "ALIAS"
          /\ Contains(described[k].name, <<".">>)
          /\ Contains(described[k].type, ArrayName) }

FamilyOf(row) == ButLastParts(row.name)

FieldOf(row) == LastPart(row.name)

\* what the i-th element of a sibling array has to be
ExpectedElement(object, field) ==
    IF object = None \/ object = Dict(<<>>) \/ ~HasKey(object.dict, field)
    THEN None
    ELSE Get(object.dict, field)

\* C13: for every record and every Nested family the record holds as an
\* array of n objects, the flattened record has one array per subcolumn of
\* the family, each of length n, whose i-th element is the value of the i-th
\* object for the subcolumn, or null when the object lacks the field or is
\* null or empty; also for n = 0 and when every element is null.
C13_SiblingArraysAreAligned ==
    Returned("flatten_nested_fields") =>
        \A r \in 1..Len(call.items) : \A k \in Subcolumns(call.described) :
            LET held == DictGet(call.items[r], FamilyOf(call.described[k]))
                after == call_result.items[r]
                name == call.described[k].name
            IN  IsList(held) =>
                    /\ HasKey(after.dict, name)
                    /\ IsList(DictGet(after, name))
                    /\ Len(DictGet(after, name).list) = Len(held.list)
                    /\ \A i \in 1..Len(held.list) :
                           DictGet(after, name).list[i]
                               = ExpectedElement(held.list[i], FieldOf(call.described[k]))

\* the record of the example: two objects, the second without qty
C13_Witness ==
    /\ Returned("flatten_nested_fields")
    /\ call.described = OrdersTable
    /\ DictGet(call.items[1], ItemsName)
           = List(<< Dict(<<Item(IdField, Str(<<"b">>)), Item(QtyField, Int_(1))>>),
                     Dict(<<Item(IdField, Str(<<"a">>))>>) >>)
    /\ DictGet(call_result.items[1], ItemsId) = List(<<Str(<<"b">>), Str(<<"a">>)>>)
    /\ DictGet(call_result.items[1], ItemsQty) = List(<<Int_(1), None>>)

\* C14: after flatten_nested_fields, a record that held a Nested family as
\* an array has no key of the family and has the key of every subcolumn of
\* the family; a record that did not hold it as an array (no key, null, or a
\* value that is no list) has the same keys and values for the family and
\* its subcolumns as before.
C14_FamilyKeyIsReplaced ==
    Returned("flatten_nested_fields") =>
        \A r \in 1..Len(call.items) : \A k \in Subcolumns(call.described) :
            LET before == call.items[r]
                after == call_result.items[r]
                family == FamilyOf(call.described[k])
                name == call.described[k].name
            IN  IF IsList(DictGet(before, family))
                THEN ~HasKey(after.dict, family) /\ HasKey(after.dict, name)
                ELSE /\ HasKey(after.dict, family) = HasKey(before.dict, family)
                     /\ DictGet(after, family) = DictGet(before, family)
                     /\ HasKey(after.dict, name) = HasKey(before.dict, name)
                     /\ DictGet(after, name) = DictGet(before, name)

\* a batch whose first record holds a string under items and keeps it, and
\* whose second record holds arrays under items and tags and loses both keys
C14_Witness ==
    /\ Returned("flatten_nested_fields")
    /\ call.described = EventsTable
    /\ Len(call.items) = 2
    /\ DictGet(call.items[1], ItemsName) = Str(<<"x">>)
    /\ DictGet(call_result.items[1], ItemsName) = Str(<<"x">>)
    /\ ~HasKey(call_result.items[1].dict, ItemsId)
    /\ IsList(DictGet(call.items[2], ItemsName))
    /\ Keys(call_result.items[2].dict) = {ItemsId, TagsLabel}

-----------------------------------------------------------------------------
(* Properties of the coercion functions *)

\* a call of the function has ended, with a frame or with an exception
Ended(function) ==
    /\ call # None /\ call.function = function
    /\ call_result # NotRun

\* the entry of metadata["all"] for a column of the frame of the call
MetaOf(name) == Get(MetadataAll(call.described), name)

IsMapped(name) == HasKey(MetadataAll(call.described), name)

\* the columns of the frame of the call, as a set
FrameColumns == Keys(call.dataframe.frame)

\* a required String column, a required UUID column, or a Map column
HasNullDefault(column_meta) ==
    \/ column_meta.is_map
    \/ column_meta.is_req /\ ~column_meta.is_array
           /\ column_meta.basic_type \in {StringName, UuidName}

NullDefault(column_meta) ==
    IF column_meta.is_map THEN Dict(<<>>)
    ELSE IF column_meta.basic_type = StringName THEN Str(<<>>)
    ELSE null_uuid

\* C15: a null cell of a required String column becomes the empty string, of
\* a required UUID column the all-zero UUID, of a Map column the empty map,
\* and the coercion neither raises nor leaves the null in place.
C15_NullCellGetsDefault ==
    \A function \in {"replace_none_where_needed", "verify_all_value_types"} :
        Ended(function) =>
            \A name \in FrameColumns :
                IsMapped(name) /\ HasNullDefault(MetaOf(name)) =>
                    \A i \in 1..Len(Cells(call.dataframe, name)) :
                        Cells(call.dataframe, name)[i] = None =>
                            /\ ~IsRaised(call_result)
                            /\ Cells(call_result, name)[i] = NullDefault(MetaOf(name))

\* C16: in a column declared as Map, every cell that is no map (a scalar, a
\* string, a list, a tuple) is made the empty map by safe_apply_type, and
\* nothing is raised.
C16_NonMapBecomesEmptyMap ==
    Ended("verify_all_value_types") =>
        \A name \in FrameColumns :
            IsMapped(name) /\ MetaOf(name).is_map =>
                \A i \in 1..Len(Cells(call.dataframe, name)) :
                    ~IsDict(Cells(call.dataframe, name)[i]) =>
                        /\ ~IsRaised(call_result)
                        /\ Cells(call_result, name)[i] = Dict(<<>>)

\* a string, a number or a UUID
IsScalar(value) ==
    \E field \in {"str", "int", "float", "bool", "uuid"} : field \in DOMAIN value

\* the converter of the column raises on the value
Unconvertible(value, converter) ==
    /\ converter # None /\ "type" \in DOMAIN converter
    /\ converter.type \in {"str", "int", "float", "bool", "uuid.UUID"}
    /\ ~IsInstance(value, converter.type)
    /\ IsRaised(Convert(converter.type, value))

\* C17: when a required scalar column holds a value that is not null and
\* that its converter cannot convert, verify_all_value_types raises; the
\* value is not replaced by null or by a default.
C17_UnconvertibleValueRaises ==
    Ended("verify_all_value_types") =>
        \A name \in FrameColumns :
            IsMapped(name) /\ MetaOf(name).is_req /\ ~MetaOf(name).is_map =>
                \A i \in 1..Len(Cells(call.dataframe, name)) :
                    LET value == Cells(call.dataframe, name)[i]
                    IN  IsScalar(value) /\ Unconvertible(value, MetaOf(name).converter)
                            => IsRaised(call_result)

-----------------------------------------------------------------------------
(* Properties of find_unmapped_columns and remove_all_empty_columns *)

\* C18: find_unmapped_columns completes, and its result holds no column that
\* is absent from the target schema, other than the catch-all column when
\* one is configured (the unmapped columns were moved into it or dropped).
C18_UnmappedColumnsAreMovedOrDropped ==
    Ended("find_unmapped_columns") =>
        /\ ~IsRaised(call_result)
        /\ \A name \in Keys(call_result.frame) :
               \/ IsMapped(name)
               \/ call.move_to # None /\ name = call.move_to.some

\* null, an empty list or an empty map
IsNullOrEmpty(x) == x = None \/ x = NaN \/ x = List(<<>>) \/ x = Dict(<<>>)

\* C19: remove_all_empty_columns drops a column if and only if every cell
\* of it is null or empty (null, an empty list or an empty map, in any
\* mixture).
C19_DropsExactlyTheEmptyColumns ==
    Ended("remove_all_empty_columns") =>
        /\ ~IsRaised(call_result)
        /\ \A name \in FrameColumns :
               name \notin Keys(call_result.frame)
                   <=> \A i \in 1..Len(Cells(call.dataframe, name)) :
                           IsNullOrEmpty(Cells(call.dataframe, name)[i])

-----------------------------------------------------------------------------
(* Properties of the batch pass *)

\* the positions in columns_to_profile of the batch that is next
BatchPositions == BatchRange(columns, batch_start)

\* the Nested families of the batch that is next, by position
NestedInBatch ==
    { k \in BatchPositions :
          ColumnsToProfile(columns)[k].value.class = "NestedColumnInfo" }

\* the discriminator of a family: the configured type_column, or the child
\* name of the first column of the schema under the parent
ExpectedDiscriminator(parent_name) ==
    IF config # None /\ parent_name \in DOMAIN config.dict
    THEN config.dict[parent_name]
    ELSE SplitDot(schema[FirstMember(parent_name)].name).child_name

\* C21: a batch step over a batch that holds a Nested family issues its
\* query and raises nothing, with a configuration, with one that has no
\* entry for the family and with none at all; the aggregates of the family
\* read the configured type_column of its parent name, or else its first
\* subcolumn in schema order.
C21_DiscriminatorIsConfiguredOrFirst ==
    [][ (pc = "batch" /\ NestedInBatch # {}) =>
          /\ IssuesBatchQuery
          /\ pc' # "raised"
          /\ \A k \in NestedInBatch :
                LET parent_name == ColumnsToProfile(columns)[k].key
                    select_parts == queries'[Len(queries')].select_parts
                IN  /\ \E p \in 1..Len(select_parts) : select_parts[p].column = parent_name
                    /\ \A p \in 1..Len(select_parts) :
                          select_parts[p].column = parent_name =>
                              select_parts[p].reads
                                  = parent_name \o <<".">> \o ExpectedDiscriminator(parent_name)
      ]_vars

\* the keys of the entries of the batch that is next
BatchKeys == { ColumnsToProfile(columns)[k].key : k \in BatchPositions }

\* the entry is as it was, but for its profile
SameButProfile(before, after) ==
    /\ after.key = before.key
    /\ [after.value EXCEPT !.profile = None] = [before.value EXCEPT !.profile = None]

\* C22: with rows > 0 the entries profiled are the keys of
\* profiled_table.columns, in their order, in consecutive batches of at most
\* batch_size; every batch step issues exactly one statistics query, whose
\* aggregates are those of the entries of the batch, and writes only to the
\* profiles of the entries of the batch.
C22_OneQueryPerBatch ==
    [][ pc = "batch" =>
          /\ ColumnsToProfile(columns) = columns
          /\ batch_start % batch_size = 0
          /\ BatchPositions # {} /\ Cardinality(BatchPositions) <= batch_size
          /\ IssuesBatchQuery
          /\ \A p \in 1..Len(queries'[Len(queries')].select_parts) :
                queries'[Len(queries')].select_parts[p].column \in BatchKeys
          /\ Len(columns') = Len(columns)
          /\ \A i \in 1..Len(columns) :
                /\ SameButProfile(columns[i], columns'[i])
                /\ columns[i].key \notin BatchKeys => columns'[i] = columns[i]
          /\ batch_start' = batch_start + batch_size
          /\ pc' = "batch" <=> batch_start' < Len(columns)
      ]_vars

-----------------------------------------------------------------------------
(* Properties of the low-cardinality probe *)

\* the number of batches of the second pass
BatchCount == (Len(ColumnsToProfile(columns)) + batch_size - 1) \div batch_size

\* the elements of a list, as a set
Elements(list) == { list[k] : k \in 1..Len(list) }

\* the entry has a value_list that is not empty
HasValueList(entry) == entry.profile # None /\ entry.profile.value_list # <<>>

\* C23: at most one low-cardinality query is issued in a run, only with
\* lc_probe on, and only after the query of every batch; a value_list is not
\* empty only for a String Basic column or a Map column whose unique_values
\* of the batch pass is greater than 1 and less than 200; its keys are the
\* column name for a Basic column and the discovered map keys for a Map.
C23_LowCardinalityProbe ==
    /\ Cardinality(Issued("lc_probe")) <= 1
    /\ Issued("lc_probe") # {} =>
          /\ lc_probe
          /\ Issued("lc_probe") = {Len(queries)}
          /\ Cardinality(Issued("batch")) = BatchCount
          /\ pc \in {"returned", "raised"}
    /\ \A i \in 1..Len(columns) :
          LET entry == columns[i].value
          IN  /\ IsFamily(entry) =>
                    \A m \in 1..Len(entry.subcolumns) : entry.subcolumns[m].profile = None
              /\ HasValueList(entry) =>
                    /\ Issued("lc_probe") # {}
                    /\ entry.class = "ColumnDetails"
                    /\ \/ /\ entry.column_type = ColumnType_BASIC
                          /\ entry.value_data_type = ValueType_STRING
                          /\ Keys(entry.profile.value_list) = {columns[i].key}
                       \/ /\ entry.column_type = ColumnType_MAP
                          /\ Keys(entry.profile.value_list)
                                = Elements(entry.profile.unique_keys.some)
                    /\ entry.profile.unique_values # None
                    /\ entry.profile.unique_values.some > 1
                    /\ entry.profile.unique_values.some < 200

\* a String column and a Map column of one table have their value lists
C23_Witness ==
    /\ pc = "returned"
    /\ \E i, j \in 1..Len(columns) :
          /\ columns[i].value.class = "ColumnDetails"
          /\ columns[i].value.column_type = ColumnType_BASIC
          /\ HasValueList(columns[i].value)
          /\ columns[j].value.class = "ColumnDetails"
          /\ columns[j].value.column_type = ColumnType_MAP
          /\ Keys(columns[j].value.profile.value_list) = {KeyOne, KeyTwo}

-----------------------------------------------------------------------------
(* Properties of the profiles the batch pass writes *)

\* the statistics of a profile that are set
Populated(profile) ==
    IF profile = None THEN {}
    ELSE { field \in {"min_value", "max_value", "avg_value",
                      "value_rows", "unique_values", "unique_keys"} :
               profile[field] # None }

\* the statistics the batch pass gives to an entry of the kind
FieldsOfKind(entry) ==
    IF entry.class = "NestedColumnInfo" THEN {"unique_keys", "value_rows"}
    ELSE IF entry.column_type = ColumnType_MAP
    THEN {"unique_keys", "unique_values", "value_rows"}
    ELSE IF entry.column_type = ColumnType_ARRAY
    THEN (IF entry.value_data_type = ValueType_STRING
          THEN {"value_rows", "unique_values"} ELSE {})
    ELSE IF entry.value_data_type \in {ValueType_DATE, ValueType_NUMBER}
    THEN {"min_value", "max_value", "value_rows"}
    ELSE {"unique_values", "value_rows"}

\* the query of the b-th batch, when it was issued: a set of at most one index
BatchQuery(b) ==
    { k \in Issued("batch") : Cardinality({ j \in Issued("batch") : j <= k }) = b }

\* the batch an entry of columns_to_profile is in, by its position
BatchOf(position) == ((position - 1) \div batch_size) + 1

AllProfiles ==
    { columns[i].value.profile : i \in 1..Len(columns) }
        \cup UNION { { columns[i].value.subcolumns[m].profile :
                           m \in 1..Len(columns[i].value.subcolumns) } : i \in Families }

\* C25: in every state of a profiling run, has_values of a profile is true
\* if and only if its value_rows is set and greater than 0; a profile is
\* made with has_values false and value_rows unset, and value_rows is never
\* written without has_values.
C25_HasValuesFollowsValueRows ==
    /\ ~ColumnProfile.has_values /\ ColumnProfile.value_rows = None
    /\ \A profile \in AllProfiles \ {None} :
          profile.has_values <=> (profile.value_rows # None /\ profile.value_rows.some > 0)

\* one batch of a table found no value, another batch found values
C25_Witness ==
    \E i, j \in 1..Len(columns) :
        /\ columns[i].value.profile # None
        /\ columns[i].value.profile.value_rows = Some(0)
        /\ ~columns[i].value.profile.has_values
        /\ columns[j].value.profile # None
        /\ columns[j].value.profile.value_rows = Some(3)
        /\ columns[j].value.profile.has_values

-----------------------------------------------------------------------------
(* Properties of resolve_datatype *)

\* the kinds in the order of the tests, each with the words that give it
KindsInOrder ==
    << [kind |-> ValueType_STRING,
        words |-> { <<"s","t","r","i","n","g">>, <<"f","i","x","e","d","s","t","r","i","n","g">>,
                    <<"e","n","u","m">> }],
       [kind |-> ValueType_NUMBER,
        words |-> { <<"i","n","t">>, <<"f","l","o","a","t">>, <<"d","e","c","i","m","a","l">>,
                    <<"d","o","u","b","l","e">>, <<"u","i","n","t">> }],
       [kind |-> ValueType_DATE,
        words |-> { <<"d","a","t","e">>, <<"d","a","t","e","t","i","m","e">> }],
       [kind |-> ValueType_UUID, words |-> { <<"u","u","i","d">> }],
       [kind |-> ValueType_BOOLEAN, words |-> { <<"b","o","o","l">> }] >>

\* the kinds that have a word in the name, by their place in the order
KindsFound(name) ==
    { k \in 1..Len(KindsInOrder) : \E w \in KindsInOrder[k].words : Contains(name, w) }

\* the earliest kind that has a word in the name, Other when none has
EarliestKind(name) ==
    IF KindsFound(name) = {} THEN ValueType_OTHER
    ELSE KindsInOrder[CHOOSE k \in KindsFound(name) : \A j \in KindsFound(name) : k <= j].kind

\* C26: resolve_datatype gives every type name, lower-cased, the kind of the
\* first test that finds one of its words in the name, in the order String,
\* Number, Date, UUID, Boolean, and Other when no test does; it answers for
\* every name.
C26_EarliestKindWins ==
    Ended("resolve_datatype") =>
        call_result = [value_type |-> EarliestKind(Lower(call.data_type))]

\* a name with a word of Number after a word of Date is a Number
C26_Witness ==
    /\ Ended("resolve_datatype")
    /\ call.data_type = <<"D","A","T","E","I","N","T">>
    /\ call_result = [value_type |-> ValueType_NUMBER]

-----------------------------------------------------------------------------
(* Properties of replace_none_where_needed *)

\* an int or a float
IsNumeric(value) == "int" \in DOMAIN value \/ "float" \in DOMAIN value

\* what an element of an array cell has to become
ExpectedArrayElement(column_meta, y) ==
    IF column_meta.basic_type = StringName THEN (IF y = None THEN Str(<<>>) ELSE y)
    ELSE IF column_meta.basic_type = UuidName THEN (IF y = None THEN null_uuid ELSE y)
    ELSE IF IsNumeric(y) THEN y ELSE NaN

\* C27: in a cell of an Array column, replace_none_where_needed makes a null
\* element of an Array of String the empty string and of an Array of UUID
\* the all-zero UUID, and makes an element of an Array of Number that is no
\* number NaN while a number, zero included, stays; the array keeps its
\* length and its other elements, and no element raises.
C27_ArrayElementsGetDefaults ==
    Ended("replace_none_where_needed") =>
        \A name \in FrameColumns :
            (/\ IsMapped(name) /\ MetaOf(name).is_array /\ ~MetaOf(name).is_map
             /\ MetaOf(name).basic_type \in {StringName, UuidName, INT, FLOAT}) =>
                \A i \in 1..Len(Cells(call.dataframe, name)) :
                    LET x == Cells(call.dataframe, name)[i]
                    IN  IsList(x) =>
                            /\ ~IsRaised(call_result)
                            /\ IsList(Cells(call_result, name)[i])
                            /\ Len(Cells(call_result, name)[i].list) = Len(x.list)
                            /\ \A k \in 1..Len(x.list) :
                                   Cells(call_result, name)[i].list[k]
                                       = ExpectedArrayElement(MetaOf(name), x.list[k])

\* C29: replace_none_where_needed does not raise on null cells: a frame
\* whose columns are all in the schema metadata and whose cells are all
\* null is processed without an exception, whatever the kinds of its
\* columns, an Array column whose whole array is null included.
C29_NullCellsNeverRaise ==
    Ended("replace_none_where_needed") =>
        ((\A name \in FrameColumns :
              /\ IsMapped(name)
              /\ \A i \in 1..Len(Cells(call.dataframe, name)) :
                     IsNull(Cells(call.dataframe, name)[i]))
            => ~IsRaised(call_result))

-----------------------------------------------------------------------------
(* Properties of the batch query *)

\* C28: every batch statistics query given to ch_client projects at least
\* one aggregate, whatever the batch is made of (only Array columns of a
\* value kind that is not String, only Grouped families).
C28_NoEmptyProjection ==
    \A k \in Issued("batch") : queries[k].select_parts # <<>>

-----------------------------------------------------------------------------
(* Properties of the sink *)

\* how many times a call was made
Times(calls, name) == Cardinality({ k \in DOMAIN calls : calls[k] = name })

\* C30: invalid events are dropped one by one; with no valid event the sink
\* returns 0 without a metadata fetch and without an insert; with a valid
\* event it flattens, drops the extra columns, removes the empty columns and
\* replaces the nulls, in that order, inserts exactly once and returns the
\* number of rows the insert reports.
C30_OneInsertWhenAnyValid ==
    (Ended("bulk_insert_records") /\ call.transform = "ok") =>
        /\ ~IsRaised(call_result)
        /\ IF \A k \in DOMAIN call.events : ~Validates(call.events[k])
           THEN /\ call_result.returned = 0
                /\ Times(call_result.calls, "fetch_metadata") = 0
                /\ Times(call_result.calls, "insert_df") = 0
           ELSE /\ call_result.calls =
                       <<"get_clickhouse_connection", "fetch_metadata">> \o AfterFlatten
                /\ Times(call_result.calls, "insert_df") = 1
                /\ call_result.returned = call.written_rows


=============================================================================
